---- MODULE Spec2Model ----
(***************************************************************************)
(* Buffer pool manager of bustub (BufferPoolManagerInstance) together with *)
(* the two components it owns: the extendible hash table used as the page  *)
(* table and the LRU-K replacer.  The disk manager is the external page    *)
(* store (read_page / write_page).                                         *)
(***************************************************************************)
EXTENDS Integers, Sequences, FiniteSets, TLC

VARIABLES pages_, free_list_, page_table_, replacer_, next_page_id_, disk, last, saved,
          threads, history, entries, tree

vars == <<pages_, free_list_, page_table_, replacer_, next_page_id_, disk, last, saved,
          threads, history, entries, tree>>

(***************************************************************************)
(* Configuration of the pool and bounds of the model.                      *)
(***************************************************************************)
\* pool_size_: number of frames (constructor argument)
PoolSize == 2
\* replacer_k: the K of LRU-K (constructor argument)
K == 2
\* bucket_size_ of the page table (constructor argument of the hash table)
BucketSize == 1
\* a frame is pinned at most MaxPin times at once
MaxPin == 2
\* page bytes are abstracted to one value in 0..MaxData, 0 being the zeroed page
MaxData == 1

INVALID_PAGE_ID == -1

\* AllocatePage hands out the ids below MaxPage: one page more than there are frames
MaxPage == PoolSize + 1
\* a resident page is fetched again while its frame has fewer recorded accesses
\* than this: up to K + 1 accesses where the calls are recorded, up to K where
\* the bytes are followed
MaxAccess == K + 1
MaxAccessData == K

FrameIds == 0 .. PoolSize - 1
\* keys the replacer's maps may hold (frame_id_t is an int)
FrameKeys == -1 .. PoolSize
PageIds == 0 .. MaxPage - 1
Data == 0 .. MaxData
\* no frame / nullptr: a value no frame_id the replacer is given can take
NoFrame == PoolSize + 1
\* the absence of remembered bytes
NoData == MaxData + 1

Pow2(n) == 2 ^ n

Last(s) == s[Len(s)]

SeqWithout(s, x) == SelectSeq(s, LAMBDA y : y # x)

(***************************************************************************)
(* Extendible hash table.  A table is a record                             *)
(*   global_depth, dir, buckets, num_buckets                               *)
(* dir[i + 1] is directory slot i and holds the identity of a bucket, an   *)
(* index into buckets; a bucket is [depth, list], list a sequence of       *)
(* <<key, value>>.                                                         *)
(***************************************************************************)
EmptyBucket(depth) == [depth |-> depth, list |-> <<>>]

NewTable == [global_depth |-> 0, dir |-> <<1>>, buckets |-> <<EmptyBucket(0)>>, num_buckets |-> 1]

\* std::hash<int> is the key converted to size_t, that is the key modulo 2^64
\* (two's complement); only its low global_depth bits are used below, and these
\* are the key modulo 2^global_depth, also for a negative key.
Hash(key) == key

\* hash & ((1 << global_depth_) - 1)
IndexOf(t, key) == Hash(key) % Pow2(t.global_depth)

GetLocalDepth(t, dir_index) == t.buckets[t.dir[dir_index + 1]].depth

GetGlobalDepth(t) == t.global_depth

GetNumBuckets(t) == t.num_buckets

\* a bucket that always has room
NeverFull(b) == FALSE

IsFull(b) == Len(b.list) = BucketSize

HasKey(b, key) == \E i \in 1 .. Len(b.list) : b.list[i][1] = key

KeyPos(b, key) == CHOOSE i \in 1 .. Len(b.list) : b.list[i][1] = key /\ \A j \in 1 .. i - 1 : b.list[j][1] # key

\* Bucket::Find: [found, value]
BucketFind(b, key) ==
  IF HasKey(b, key) THEN [found |-> TRUE, value |-> b.list[KeyPos(b, key)][2]]
  ELSE [found |-> FALSE, value |-> NoFrame]

\* Bucket::Remove: [ok, bucket]
BucketRemove(b, key) ==
  IF HasKey(b, key)
  THEN [ok |-> TRUE,
        bucket |-> [b EXCEPT !.list = SubSeq(b.list, 1, KeyPos(b, key) - 1)
                                      \o SubSeq(b.list, KeyPos(b, key) + 1, Len(b.list))]]
  ELSE [ok |-> FALSE, bucket |-> b]

\* Bucket::Insert: [ok, bucket]
BucketInsert(b, key, value) ==
  IF HasKey(b, key)
  THEN [ok |-> TRUE, bucket |-> [b EXCEPT !.list[KeyPos(b, key)] = <<key, value>>]]
  ELSE IF IsFull(b)
       THEN [ok |-> FALSE, bucket |-> b]
       ELSE [ok |-> TRUE, bucket |-> [b EXCEPT !.list = Append(b.list, <<key, value>>)]]

\* ExtendibleHashTable::Find: [found, value]
Find(t, key) == BucketFind(t.buckets[t.dir[IndexOf(t, key) + 1]], key)

\* ExtendibleHashTable::Remove: the table after the call
Remove(t, key) ==
  LET id == t.dir[IndexOf(t, key) + 1]
  IN [t EXCEPT !.buckets[id] = BucketRemove(t.buckets[id], key).bucket]

RemoveOk(t, key) == BucketRemove(t.buckets[t.dir[IndexOf(t, key) + 1]], key).ok

\* a doubling that counts itself as a new bucket
DoubleAndCount(t) ==
  [t EXCEPT !.global_depth = t.global_depth + 1, !.dir = t.dir \o t.dir, !.num_buckets = t.num_buckets + 1]

\* step 1 of the split loop: double the directory
DoubleDirectory(t) == [t EXCEPT !.global_depth = t.global_depth + 1, !.dir = t.dir \o t.dir]

\* a split that forgets the items of the bucket it splits
DropItems(t, items) == t

\* step 3.2: the items of the split bucket go to the bucket their index names
RECURSIVE Redistribute(_, _)
Redistribute(t, items) ==
  IF items = <<>> THEN t
  ELSE LET id == t.dir[IndexOf(t, items[1][1]) + 1]
       IN Redistribute([t EXCEPT !.buckets[id] = BucketInsert(t.buckets[id], items[1][1], items[1][2]).bucket],
                       Tail(items))

\* One iteration of the loop of Insert for the full bucket of slot directory_index.
\* The two buckets made by the split take the identity of the bucket they replace
\* (new_bucket) and a fresh one (old_bucket); the replaced bucket has no reference left.
SplitBucket(t, directory_index) ==
  LET target == t.dir[directory_index + 1]
      t1 == IF GetLocalDepth(t, directory_index) = GetGlobalDepth(t) THEN DoubleDirectory(t) ELSE t
      depth == t.buckets[target].depth + 1
      mask == Pow2(depth - 1)
      new_bucket == target
      old_bucket == Len(t.buckets) + 1
      dir2 == [i \in 1 .. Len(t1.dir) |->
                 IF t1.dir[i] = target
                 THEN IF ((i - 1) \div mask) % 2 = 0 THEN new_bucket ELSE old_bucket
                 ELSE t1.dir[i]]
      t2 == [t1 EXCEPT !.dir = dir2,
                       !.buckets = Append([t1.buckets EXCEPT ![target] = EmptyBucket(depth)], EmptyBucket(depth)),
                       !.num_buckets = t1.num_buckets + 1]
  IN Redistribute(t2, t.buckets[target].list)

\* an Insert whose loop gives up after one split
InsertAfterOneSplit(t, key, value) ==
  LET directory_index == IndexOf(t, key)
      r == BucketInsert(t.buckets[t.dir[directory_index + 1]], key, value)
      t1 == IF r.ok THEN t ELSE SplitBucket(t, directory_index)
      id == t1.dir[IndexOf(t1, key) + 1]
  IN [t1 EXCEPT !.buckets[id] = BucketInsert(t1.buckets[id], key, value).bucket]

\* an Insert that splits a full bucket before it looks for the key in it, once
SplitBeforeInsert(t, key, value) ==
  LET directory_index == IndexOf(t, key)
      t1 == IF IsFull(t.buckets[t.dir[directory_index + 1]]) THEN SplitBucket(t, directory_index) ELSE t
      id == t1.dir[IndexOf(t1, key) + 1]
  IN [t1 EXCEPT !.buckets[id] = BucketInsert(t1.buckets[id], key, value).bucket]

\* ExtendibleHashTable::Insert: the table after the call
RECURSIVE Insert(_, _, _)
Insert(t, key, value) ==
  LET directory_index == IndexOf(t, key)
      id == t.dir[directory_index + 1]
      r == BucketInsert(t.buckets[id], key, value)
  IN IF r.ok THEN [t EXCEPT !.buckets[id] = r.bucket]
     ELSE Insert(SplitBucket(t, directory_index), key, value)

(***************************************************************************)
(* LRU-K replacer.  A replacer is a record                                 *)
(*   access_record_map_, outer_list_, outer_index_, pool_cache_list_,      *)
(*   pool_cache_index_, evictable_map_, curr_size_, k_, fault              *)
(* A list is a sequence whose first element is the front of the std::list. *)
(* A map entry that is absent reads as 0 / false, as operator[] makes it.  *)
(* outer_index_ and pool_cache_index_ are the sets of keys that have an    *)
(* iterator stored.  fault records that a list was asked to erase through  *)
(* an iterator that was never stored.                                      *)
(***************************************************************************)
NewReplacer ==
  [access_record_map_ |-> [f \in FrameKeys |-> 0],
   outer_list_ |-> <<>>,
   outer_index_ |-> {},
   pool_cache_list_ |-> <<>>,
   pool_cache_index_ |-> {},
   evictable_map_ |-> [f \in FrameKeys |-> FALSE],
   curr_size_ |-> 0,
   k_ |-> K,
   fault |-> FALSE]

\* frame_id >= static_cast<int>(replacer_size_): the call throws
InvalidFrame(frame_id) == frame_id >= PoolSize

\* a scan that takes the back of the list whether or not it is evictable
BackOfList(r, list) == IF list = <<>> THEN NoFrame ELSE Last(list)

\* a scan that starts at the front of the list
RECURSIVE FirstEvictableFromFront(_, _)
FirstEvictableFromFront(r, list) ==
  IF list = <<>> THEN NoFrame
  ELSE IF r.evictable_map_[Head(list)] THEN Head(list)
       ELSE FirstEvictableFromFront(r, Tail(list))

\* the evictable frames of a list, from its back to its front
RECURSIVE FirstEvictableFromBack(_, _)
FirstEvictableFromBack(r, list) ==
  IF list = <<>> THEN NoFrame
  ELSE IF r.evictable_map_[Last(list)] THEN Last(list)
       ELSE FirstEvictableFromBack(r, SubSeq(list, 1, Len(list) - 1))

\* an Evict that never finds a victim
EvictNothing(r) == [found |-> FALSE, frame_id |-> NoFrame, replacer |-> r]

\* LRUKReplacer::Evict: [found, frame_id, replacer]
Evict(r) ==
  LET h == FirstEvictableFromBack(r, r.outer_list_)
      c == FirstEvictableFromBack(r, r.pool_cache_list_)
  IN IF r.curr_size_ = 0 THEN [found |-> FALSE, frame_id |-> NoFrame, replacer |-> r]
     ELSE IF h # NoFrame
     THEN [found |-> TRUE, frame_id |-> h,
           replacer |-> [r EXCEPT !.access_record_map_[h] = 0,
                                  !.outer_list_ = SeqWithout(r.outer_list_, h),
                                  !.outer_index_ = r.outer_index_ \ {h},
                                  !.curr_size_ = r.curr_size_ - 1,
                                  !.evictable_map_[h] = FALSE]]
     ELSE IF c # NoFrame
     THEN [found |-> TRUE, frame_id |-> c,
           replacer |-> [r EXCEPT !.access_record_map_[c] = 0,
                                  !.pool_cache_list_ = SeqWithout(r.pool_cache_list_, c),
                                  !.pool_cache_index_ = r.pool_cache_index_ \ {c},
                                  !.curr_size_ = r.curr_size_ - 1,
                                  !.evictable_map_[c] = FALSE]]
     ELSE [found |-> FALSE, frame_id |-> NoFrame, replacer |-> r]

\* LRUKReplacer::RecordAccess: the replacer after the call (unchanged when it throws)
RecordAccess(r, frame_id) ==
  LET n == r.access_record_map_[frame_id] + 1
      r1 == [r EXCEPT !.access_record_map_[frame_id] = n]
  IN IF InvalidFrame(frame_id) THEN r
     ELSE IF n < r.k_
     THEN IF frame_id \notin r1.outer_index_
          THEN [r1 EXCEPT !.outer_list_ = <<frame_id>> \o r1.outer_list_,
                          !.outer_index_ = r1.outer_index_ \cup {frame_id}]
          ELSE r1
     ELSE IF n = r.k_
     THEN [r1 EXCEPT !.fault = r1.fault \/ frame_id \notin r1.outer_index_,
                     !.outer_list_ = SeqWithout(r1.outer_list_, frame_id),
                     !.outer_index_ = r1.outer_index_ \ {frame_id},
                     !.pool_cache_list_ = <<frame_id>> \o r1.pool_cache_list_,
                     !.pool_cache_index_ = r1.pool_cache_index_ \cup {frame_id}]
     ELSE [r1 EXCEPT !.pool_cache_list_ =
                        <<frame_id>> \o (IF frame_id \in r1.pool_cache_index_
                                         THEN SeqWithout(r1.pool_cache_list_, frame_id)
                                         ELSE r1.pool_cache_list_),
                     !.pool_cache_index_ = r1.pool_cache_index_ \cup {frame_id}]

\* a SetEvictable that flips the flag and leaves the size alone
SetEvictableUncounted(r, frame_id, set_evictable) ==
  IF InvalidFrame(frame_id) THEN r
  ELSE IF r.access_record_map_[frame_id] = 0 THEN r
  ELSE [r EXCEPT !.evictable_map_[frame_id] = set_evictable]

\* a SetEvictable that only ever sets the flag
SetEvictableOnly(r, frame_id, set_evictable) ==
  IF InvalidFrame(frame_id) THEN r
  ELSE IF r.access_record_map_[frame_id] = 0 THEN r
  ELSE IF r.evictable_map_[frame_id] = set_evictable THEN r
  ELSE IF set_evictable
       THEN [r EXCEPT !.evictable_map_[frame_id] = TRUE, !.curr_size_ = r.curr_size_ + 1]
       ELSE r

\* LRUKReplacer::SetEvictable: the replacer after the call (unchanged when it throws)
SetEvictable(r, frame_id, set_evictable) ==
  IF InvalidFrame(frame_id) THEN r
  ELSE IF r.access_record_map_[frame_id] = 0 THEN r
  ELSE IF r.evictable_map_[frame_id] = set_evictable THEN r
  ELSE IF set_evictable
       THEN [r EXCEPT !.evictable_map_[frame_id] = TRUE, !.curr_size_ = r.curr_size_ + 1]
       ELSE [r EXCEPT !.evictable_map_[frame_id] = FALSE, !.curr_size_ = r.curr_size_ - 1]

\* a Remove that refuses invalid frame ids only
RemoveThrowsOnInvalid(r, frame_id) == InvalidFrame(frame_id)

\* LRUKReplacer::Remove throws: the frame id is invalid, or the frame is tracked and not evictable
RemoveThrows(r, frame_id) ==
  \/ InvalidFrame(frame_id)
  \/ r.access_record_map_[frame_id] # 0 /\ ~r.evictable_map_[frame_id]

\* a Remove that leaves the frame tracked
StillTracked(r, frame_id) == r

\* LRUKReplacer::Remove: the replacer after the call (unchanged when it throws)
ReplacerRemove(r, frame_id) ==
  IF RemoveThrows(r, frame_id) THEN r
  ELSE IF r.access_record_map_[frame_id] = 0 THEN r
  ELSE LET r1 == IF r.access_record_map_[frame_id] < r.k_
                 THEN [r EXCEPT !.fault = r.fault \/ frame_id \notin r.outer_index_,
                                !.outer_list_ = SeqWithout(r.outer_list_, frame_id),
                                !.outer_index_ = r.outer_index_ \ {frame_id}]
                 ELSE [r EXCEPT !.fault = r.fault \/ frame_id \notin r.pool_cache_index_,
                                !.pool_cache_list_ = SeqWithout(r.pool_cache_list_, frame_id),
                                !.pool_cache_index_ = r.pool_cache_index_ \ {frame_id}]
       IN [r1 EXCEPT !.access_record_map_[frame_id] = 0,
                     !.evictable_map_[frame_id] = FALSE,
                     !.curr_size_ = r.curr_size_ - 1]

\* LRUKReplacer::Size
Size(r) == r.curr_size_

(***************************************************************************)
(* Disk manager: the page store behind the pool.  A page that was never    *)
(* written reads as zeroes.                                                *)
(***************************************************************************)
WritePage(d, page_id, data) == [d EXCEPT ![page_id] = data]

ReadPage(d, page_id) == d[page_id]

(***************************************************************************)
(* Buffer pool manager.                                                    *)
(*   pages_[f]      [page_id, pin_count, is_dirty, data] of frame f        *)
(*   free_list_     sequence of frame ids, its first element the front     *)
(*   page_table_    extendible hash table page id -> frame id              *)
(*   replacer_      LRU-K replacer                                         *)
(*   next_page_id_  the allocator's counter                                *)
(*   disk           the disk manager's pages                               *)
(*   threads[t]     the call thread t is in: its position, its arguments,  *)
(*                  the mutexes it holds, what it returned                 *)
(*   history        the replacer's clock and, for every frame it tracks,   *)
(*                  the times of the recorded accesses                     *)
(* and two history variables:                                              *)
(*   last           the latest call: its arguments and what it returned    *)
(*   saved[p]       the bytes page p had at its latest unpin with          *)
(*                  is_dirty = true, NoData once they are changed again or *)
(*                  the page is deleted                                    *)
(***************************************************************************)
bpm == <<pages_, free_list_, page_table_, replacer_, next_page_id_, disk>>

\* Page::Page and ResetMemory
NewPage == [page_id |-> INVALID_PAGE_ID, pin_count |-> 0, is_dirty |-> FALSE, data |-> 0]

\* A call: its name, its arguments, whether it returned a page / true, the frame
\* it worked on, whether a fetch found the page cached, and the page the frame
\* held before new_page or fetch_page reused it.
Call(op, page_id, is_dirty, ret, frame, hit, victim) ==
  [op |-> op, page_id |-> page_id, is_dirty |-> is_dirty, ret |-> ret, frame |-> frame, hit |-> hit,
   victim |-> victim]

\* a call that worked on no frame
Refusal(op, page_id, is_dirty, ret) == Call(op, page_id, is_dirty, ret, NoFrame, FALSE, INVALID_PAGE_ID)

\* two threads call the pool
Threads == {"a", "b"}

\* A thread that is in no call and has returned from none.  Of a thread:
\*   pc, op, page_id, is_dirty   where it is in which call
\*   holds, todo                 the mutexes it holds, the member calls ahead
\*   found                       what page_table_->Find gave FetchPgImp
\*   ret, frame, read, threw     what the call returned, whether it read the
\*                               disk, whether it left by an exception
\*   peers, cold                 the threads whose calls overlap this call; the
\*                               page was not resident when the call began
\*   directory_index             the local of ExtendibleHashTable::Insert
\*   seen                        what an accessor of the hash table returned and
\*                               the members of the table as they were then
IdleThread ==
  [pc |-> "idle", op |-> "none", page_id |-> INVALID_PAGE_ID, is_dirty |-> FALSE,
   holds |-> {}, todo |-> <<>>, found |-> [found |-> FALSE, value |-> NoFrame],
   ret |-> FALSE, frame |-> NoFrame, read |-> FALSE, threw |-> FALSE,
   peers |-> {}, cold |-> FALSE, directory_index |-> 0, seen |-> <<>>]

\* no access recorded: the clock at 0
NewHistory == [clock |-> 0, times |-> [f \in FrameKeys |-> <<>>]]

\* the keys and values given to a hash table on its own
MaxKey == 3
TableKeys == -1 .. MaxKey
TableValues == 0 .. 1
NoValue == MaxKey + 1

\* the map a hash table stands for: no key has a value
NewEntries == [k \in TableKeys |-> NoValue]

\* no internal page is under study
NoLookup == [page |-> <<>>, key |-> 0, ret |-> INVALID_PAGE_ID]

NewTree ==
  [left |-> <<>>, right |-> <<>>, middle_key |-> 0,
   pc |-> "idle", op |-> "none", recipient |-> "none", items |-> <<>>, todo |-> <<>>,
   frame |-> NoFrame, moved |-> {}, before |-> <<>>, lookup |-> NoLookup]

Init ==
  /\ entries = NewEntries
  /\ tree = NewTree
  /\ threads = [t \in Threads |-> IdleThread]
  /\ history = NewHistory
  /\ pages_ = [f \in FrameIds |-> NewPage]
  /\ free_list_ = [i \in 1 .. PoolSize |-> i - 1]
  /\ page_table_ = NewTable
  /\ replacer_ = NewReplacer
  /\ next_page_id_ = 0
  /\ disk = [p \in PageIds |-> 0]
  /\ last = Refusal("init", INVALID_PAGE_ID, FALSE, TRUE)
  /\ saved = [p \in PageIds |-> NoData]

\* the loop that opens NewPgImp and follows the lookup of FetchPgImp
AllPinned == \A i \in FrameIds : ~(pages_[i].pin_count <= 0)

\* a replacement that never asks the replacer
FreeFrameOnly ==
  IF free_list_ # <<>>
  THEN [found |-> TRUE, frame_id |-> Head(free_list_), free_list |-> Tail(free_list_), replacer |-> replacer_]
  ELSE [found |-> FALSE, frame_id |-> NoFrame, free_list |-> free_list_, replacer |-> replacer_]

\* a choice that asks the replacer before it looks at the free list
ReplacerFirst ==
  LET e == Evict(replacer_)
  IN IF e.found
     THEN [found |-> TRUE, frame_id |-> e.frame_id, free_list |-> free_list_, replacer |-> e.replacer]
     ELSE IF free_list_ # <<>>
     THEN [found |-> TRUE, frame_id |-> Head(free_list_), free_list |-> Tail(free_list_), replacer |-> replacer_]
     ELSE [found |-> FALSE, frame_id |-> NoFrame, free_list |-> free_list_, replacer |-> replacer_]

\* The replacement frame: the front of the free list, else the replacer's victim.
\* [found, frame_id, free_list, replacer]
PickFrame ==
  IF free_list_ # <<>>
  THEN [found |-> TRUE, frame_id |-> Head(free_list_), free_list |-> Tail(free_list_), replacer |-> replacer_]
  ELSE LET e == Evict(replacer_)
       IN [found |-> e.found, frame_id |-> e.frame_id, free_list |-> free_list_, replacer |-> e.replacer]

\* new_page and a fetch_page miss return nullptr
NoFrameLeft == AllPinned \/ ~PickFrame.found

\* a reuse that skips the write-back
NoWriteBack(d, frame) == d

\* "if the page is dirty, write it back to the disk"
WriteBack(d, frame) == IF frame.is_dirty THEN WritePage(d, frame.page_id, frame.data) ELSE d

\* a reuse that leaves the dirty flag as it was
Uncleaned(frame) == frame

\* "frame->is_dirty_ = false" after the write-back
Cleaned(frame) == IF frame.is_dirty THEN [frame EXCEPT !.is_dirty = FALSE] ELSE frame

\* the frame's page once it is reused for page_id: page_id_ set, pin_count_++, the bytes
Reused(frame, page_id, data) ==
  [Cleaned(frame) EXCEPT !.page_id = page_id, !.pin_count = @ + 1, !.data = data]

\* RecordAccess then SetEvictable(false), as new_page and fetch_page end
Pinned(r, frame_id) == SetEvictable(RecordAccess(r, frame_id), frame_id, FALSE)

\* a reuse that leaves the old page's entry in the page table
InsertOnly(t, old_page_id, page_id, frame_id) == Insert(t, page_id, frame_id)

\* page_table_->Remove(old id) ... page_table_->Insert(page_id, frame_id)
Remap(t, old_page_id, page_id, frame_id) == Insert(Remove(t, old_page_id), page_id, frame_id)

\* a NewPgImp that takes its page id before it looks for a frame
NewPgEager ==
  /\ next_page_id_ < MaxPage
  /\ LET pick == PickFrame
         frame_id == pick.frame_id
         new_page_id == next_page_id_
     IN /\ next_page_id_' = next_page_id_ + 1
        /\ IF NoFrameLeft
           THEN UNCHANGED <<pages_, free_list_, page_table_, replacer_, disk>>
           ELSE /\ disk' = WriteBack(disk, pages_[frame_id])
                /\ pages_' = [pages_ EXCEPT ![frame_id] = Reused(@, new_page_id, 0)]
                /\ free_list_' = pick.free_list
                /\ replacer_' = Pinned(pick.replacer, frame_id)
                /\ page_table_' = Remap(page_table_, pages_[frame_id].page_id, new_page_id, frame_id)

\* BufferPoolManagerInstance::NewPgImp
NewPgImp ==
  /\ next_page_id_ < MaxPage
  /\ LET pick == PickFrame
         frame_id == pick.frame_id
         new_page_id == next_page_id_
     IN IF NoFrameLeft
        THEN UNCHANGED bpm
        ELSE /\ disk' = WriteBack(disk, pages_[frame_id])
             /\ next_page_id_' = next_page_id_ + 1
             /\ pages_' = [pages_ EXCEPT ![frame_id] = Reused(@, new_page_id, 0)]
             /\ free_list_' = pick.free_list
             /\ replacer_' = Pinned(pick.replacer, frame_id)
             /\ page_table_' = Remap(page_table_, pages_[frame_id].page_id, new_page_id, frame_id)

\* what NewPgImp returns
NewPgCall ==
  IF NoFrameLeft THEN Refusal("new_page", INVALID_PAGE_ID, FALSE, FALSE)
  ELSE Call("new_page", next_page_id_, FALSE, TRUE, PickFrame.frame_id, FALSE,
            pages_[PickFrame.frame_id].page_id)

\* FetchPgImp when the page table holds page_id
FetchHit(page_id, frame_id) ==
  /\ replacer_' = Pinned(replacer_, frame_id)
  /\ pages_' = [pages_ EXCEPT ![frame_id].pin_count = @ + 1]
  /\ UNCHANGED <<free_list_, page_table_, next_page_id_, disk>>

\* FetchPgImp when the page table does not hold page_id
FetchMiss(page_id) ==
  LET pick == PickFrame
      frame_id == pick.frame_id
      written == WriteBack(disk, pages_[frame_id])
  IN IF NoFrameLeft
     THEN UNCHANGED bpm
     ELSE /\ disk' = written
          /\ pages_' = [pages_ EXCEPT ![frame_id] = Reused(@, page_id, ReadPage(written, page_id))]
          /\ free_list_' = pick.free_list
          /\ replacer_' = Pinned(pick.replacer, frame_id)
          /\ page_table_' = Remap(page_table_, pages_[frame_id].page_id, page_id, frame_id)
          /\ UNCHANGED next_page_id_

\* BufferPoolManagerInstance::FetchPgImp
FetchPgImp(page_id) ==
  LET found == Find(page_table_, page_id)
  IN IF found.found THEN FetchHit(page_id, found.value) ELSE FetchMiss(page_id)

\* what FetchPgImp returns
FetchPgCall(page_id) ==
  LET found == Find(page_table_, page_id)
  IN IF found.found THEN Call("fetch_page", page_id, FALSE, TRUE, found.value, TRUE, INVALID_PAGE_ID)
     ELSE IF NoFrameLeft THEN Refusal("fetch_page", page_id, FALSE, FALSE)
     ELSE Call("fetch_page", page_id, FALSE, TRUE, PickFrame.frame_id, FALSE,
               pages_[PickFrame.frame_id].page_id)

\* "is_dirty_ = is_dirty"
DirtyAssigned(was_dirty, is_dirty) == is_dirty

\* "if (is_dirty) { is_dirty_ = true; }"
DirtyAfterUnpin(was_dirty, is_dirty) == IF is_dirty THEN TRUE ELSE was_dirty

\* an unpin_page that refuses only a page the page table does not hold
PageAbsent(page_id) == ~Find(page_table_, page_id).found

\* unpin_page returns false
UnpinRefused(page_id) ==
  LET found == Find(page_table_, page_id)
  IN ~found.found \/ pages_[found.value].pin_count <= 0

\* BufferPoolManagerInstance::UnpinPgImp
UnpinPgImp(page_id, is_dirty) ==
  LET frame_id == Find(page_table_, page_id).value
  IN IF UnpinRefused(page_id)
     THEN UNCHANGED bpm
     ELSE /\ pages_' = [pages_ EXCEPT ![frame_id].is_dirty = DirtyAfterUnpin(@, is_dirty),
                                       ![frame_id].pin_count = @ - 1]
          /\ replacer_' = IF pages_[frame_id].pin_count - 1 = 0
                          THEN SetEvictable(replacer_, frame_id, TRUE)
                          ELSE replacer_
          /\ UNCHANGED <<free_list_, page_table_, next_page_id_, disk>>

\* what UnpinPgImp returns
UnpinPgCall(page_id, is_dirty) ==
  IF UnpinRefused(page_id) THEN Refusal("unpin_page", page_id, is_dirty, FALSE)
  ELSE Call("unpin_page", page_id, is_dirty, TRUE, Find(page_table_, page_id).value, FALSE, INVALID_PAGE_ID)

\* a flush that leaves the dirty flag as it was
StillDirty(frame) == frame

\* "pages_[frame_id].is_dirty_ = false" of FlushPgImp
Flushed(frame) == [frame EXCEPT !.is_dirty = FALSE]

\* flush_page returns false
FlushRefused(page_id) == page_id = INVALID_PAGE_ID \/ ~Find(page_table_, page_id).found

\* BufferPoolManagerInstance::FlushPgImp
FlushPgImp(page_id) ==
  LET frame_id == Find(page_table_, page_id).value
  IN IF FlushRefused(page_id)
     THEN UNCHANGED bpm
     ELSE /\ disk' = WritePage(disk, page_id, pages_[frame_id].data)
          /\ pages_' = [pages_ EXCEPT ![frame_id] = Flushed(@)]
          /\ UNCHANGED <<free_list_, page_table_, replacer_, next_page_id_>>

\* what FlushPgImp returns
FlushPgCall(page_id) ==
  IF FlushRefused(page_id) THEN Refusal("flush_page", page_id, FALSE, FALSE)
  ELSE Call("flush_page", page_id, FALSE, TRUE, Find(page_table_, page_id).value, FALSE, INVALID_PAGE_ID)

\* a delete_page that never refuses
NeverRefused(page_id) == FALSE

\* delete_page finds the page pinned and returns false
DeleteRefused(page_id) ==
  LET found == Find(page_table_, page_id)
  IN found.found /\ pages_[found.value].pin_count > 0

\* BufferPoolManagerInstance::DeletePgImp
DeletePgImp(page_id) ==
  LET found == Find(page_table_, page_id)
      frame_id == found.value
  IN IF ~found.found \/ DeleteRefused(page_id)
     THEN UNCHANGED bpm
     ELSE IF RemoveThrows(replacer_, frame_id)
     THEN \* the exception of replacer_->Remove leaves DeletePgImp after
          \* page_table_->Remove
          /\ page_table_' = Remove(page_table_, page_id)
          /\ UNCHANGED <<pages_, free_list_, replacer_, next_page_id_, disk>>
     ELSE /\ page_table_' = Remove(page_table_, page_id)
          /\ replacer_' = ReplacerRemove(replacer_, frame_id)
          /\ free_list_' = Append(free_list_, frame_id)
          /\ pages_' = [pages_ EXCEPT ![frame_id] = NewPage]
          /\ UNCHANGED <<next_page_id_, disk>>

\* what DeletePgImp returns
DeletePgCall(page_id) ==
  LET found == Find(page_table_, page_id)
  IN IF ~found.found THEN Refusal("delete_page", page_id, FALSE, TRUE)
     ELSE IF DeleteRefused(page_id) THEN Refusal("delete_page", page_id, FALSE, FALSE)
     ELSE Call("delete_page", page_id, FALSE, TRUE, found.value, FALSE, INVALID_PAGE_ID)

\* A holder of a pin changes the bytes of the page, as CopyNFrom does with a
\* child page between FetchPage and UnpinPage.
WriteData(frame_id, data) ==
  /\ pages_[frame_id].pin_count > 0
  /\ pages_[frame_id].data # data
  /\ pages_' = [pages_ EXCEPT ![frame_id].data = data]
  /\ UNCHANGED <<free_list_, page_table_, replacer_, next_page_id_, disk>>

\* the page ids a caller can hold: those AllocatePage has handed out
Allocated == 0 .. next_page_id_ - 1

\* fetch_page(page_id) keeps the pin count and the access count of a resident
\* page within the bounds
Fetchable(page_id, max_pin, max_access) ==
  LET found == Find(page_table_, page_id)
  IN found.found =>
       /\ pages_[found.value].pin_count < max_pin
       /\ replacer_.access_record_map_[found.value] < max_access

\* the page ids passed to unpin_page, flush_page and delete_page
PageArgs == {INVALID_PAGE_ID} \cup PageIds

(***************************************************************************)
(* Spec: the calls of the pool, each recorded in last.  Nobody changes the *)
(* bytes of a page.                                                        *)
(***************************************************************************)
Returns(call) == last' = call /\ saved' = saved /\ UNCHANGED <<threads, history, entries, tree>>

Next ==
  \/ NewPgImp /\ Returns(NewPgCall)
  \/ \E page_id \in Allocated :
        Fetchable(page_id, MaxPin, MaxAccess) /\ FetchPgImp(page_id) /\ Returns(FetchPgCall(page_id))
  \/ \E page_id \in PageArgs, is_dirty \in BOOLEAN :
        UnpinPgImp(page_id, is_dirty) /\ Returns(UnpinPgCall(page_id, is_dirty))
  \/ \E page_id \in PageArgs : FlushPgImp(page_id) /\ Returns(FlushPgCall(page_id))
  \/ \E page_id \in PageArgs : DeletePgImp(page_id) /\ Returns(DeletePgCall(page_id))

Spec == Init /\ [][Next]_vars

(***************************************************************************)
(* Vocabulary of the properties.                                           *)
(***************************************************************************)
\* page p is resident: the page table holds it
Resident(p) == Find(page_table_, p).found

\* the frame the page table gives for p
FrameOf(p) == Find(page_table_, p).value

\* the page table maps p to f
Maps(p, f) == Find(page_table_, p) = [found |-> TRUE, value |-> f]

InFreeList(f) == \E i \in 1 .. Len(free_list_) : free_list_[i] = f

IsPinned(f) == pages_[f].pin_count > 0

IsEvictable(f) == replacer_.evictable_map_[f]

EveryFramePinned == \A f \in FrameIds : IsPinned(f)

ResidentPages == {p \in PageArgs : Resident(p)}

\* the latest call took its frame from a resident page
Evicted == last.op \in {"new_page", "fetch_page"} /\ last.ret /\ last.victim # INVALID_PAGE_ID

NoneIffAllPinned ==
  [][/\ last'.op = "new_page" => (~last'.ret <=> EveryFramePinned)
     /\ last'.op = "fetch_page" =>
          (~last'.ret <=> ~Resident(last'.page_id) /\ EveryFramePinned)]_vars

\* C3, its case: a fetch_page of a resident page succeeded although every frame
\* was pinned before it
HitWhileAllPinned ==
  /\ last.op = "fetch_page" /\ last.ret /\ last.hit
  /\ pages_[last.frame].pin_count > 1
  /\ EveryFramePinned

FramePartition ==
  /\ \A f \in FrameIds :
       /\ IsPinned(f) \/ IsEvictable(f) \/ InFreeList(f)
       /\ ~(IsPinned(f) /\ IsEvictable(f))
       /\ ~(IsPinned(f) /\ InFreeList(f))
       /\ ~(IsEvictable(f) /\ InFreeList(f))
  /\ \A i, j \in 1 .. Len(free_list_) : free_list_[i] = free_list_[j] => i = j
  /\ \A p \in PageArgs : Resident(p) => ~InFreeList(FrameOf(p))
  /\ Cardinality({f \in FrameIds : IsPinned(f)}) + Size(replacer_) + Len(free_list_)
       >= Cardinality(ResidentPages)
  /\ Cardinality(ResidentPages) <= PoolSize

\* C6, its case: delete_page put an evictable frame back in the free list while
\* the other frame stayed pinned
FreedBesidePinned ==
  /\ last.op = "delete_page" /\ last.ret /\ last.frame # NoFrame
  /\ InFreeList(last.frame)
  /\ \E f \in FrameIds : IsPinned(f)

\* C8: unpin_page(p, _) returns false and changes nothing when p is not resident
\* or its pin_count is 0; otherwise it returns true and lowers the pin_count by
\* exactly one.  No pin_count is ever negative.
UnpinContract ==
  [][/\ last'.op = "unpin_page" =>
          IF ~Resident(last'.page_id) \/ pages_[FrameOf(last'.page_id)].pin_count = 0
          THEN ~last'.ret /\ UNCHANGED bpm
          ELSE /\ last'.ret
               /\ pages_'[FrameOf(last'.page_id)].pin_count = pages_[FrameOf(last'.page_id)].pin_count - 1
               /\ \A f \in FrameIds \ {FrameOf(last'.page_id)} : pages_'[f] = pages_[f]
     /\ \A f \in FrameIds : pages_'[f].pin_count >= 0]_vars

\* C8, its case: unpin_page was refused for a resident page whose pin_count is 0
UnpinRefusedAtZero ==
  /\ last.op = "unpin_page" /\ ~last.ret
  /\ Resident(last.page_id)
  /\ pages_[FrameOf(last.page_id)].pin_count = 0

\* C9: unpin_page never clears a dirty flag and unpin_page(p, true) sets it; a
\* dirty flag is cleared only by flush_page of the page, by delete_page of the
\* page, or by new_page / a fetch_page miss evicting the page.
DirtySticks ==
  [][/\ \A f \in FrameIds :
          pages_[f].is_dirty /\ ~pages_'[f].is_dirty =>
            \/ last'.op = "flush_page" /\ last'.ret /\ last'.page_id = pages_[f].page_id
            \/ last'.op = "delete_page" /\ last'.ret /\ last'.page_id = pages_[f].page_id
            \/ /\ last'.op \in {"new_page", "fetch_page"} /\ last'.ret /\ ~last'.hit
               /\ last'.frame = f /\ last'.victim = pages_[f].page_id
     /\ last'.op = "unpin_page" /\ last'.ret /\ last'.is_dirty => pages_'[last'.frame].is_dirty]_vars

\* C9, its case: unpin_page(p, false) returned true on a page that is dirty
CleanUnpinOfDirty ==
  /\ last.op = "unpin_page" /\ last.ret /\ ~last.is_dirty
  /\ pages_[last.frame].is_dirty
  /\ pages_[last.frame].page_id = last.page_id

(***************************************************************************)
(* SpecData: the same calls, and pin holders that change the bytes of      *)
(* their page; saved follows the bytes handed over by unpin_page(p, true). *)
(***************************************************************************)
SavedAfterUnpin(page_id, is_dirty) ==
  IF ~UnpinRefused(page_id) /\ is_dirty
  THEN [saved EXCEPT ![page_id] = pages_[Find(page_table_, page_id).value].data]
  ELSE saved

SavedAfterDelete(page_id) ==
  IF page_id \in PageIds /\ Find(page_table_, page_id).found /\ ~DeleteRefused(page_id)
  THEN [saved EXCEPT ![page_id] = NoData]
  ELSE saved

SavedAfterWrite(frame_id) == [saved EXCEPT ![pages_[frame_id].page_id] = NoData]

NextData ==
  \/ NewPgImp /\ UNCHANGED <<last, saved, threads, history, entries, tree>>
  \/ \E page_id \in Allocated :
        Fetchable(page_id, MaxPin, MaxAccessData) /\ FetchPgImp(page_id) /\ UNCHANGED <<last, saved, threads, history, entries, tree>>
  \/ \E page_id \in PageArgs, is_dirty \in BOOLEAN :
        UnpinPgImp(page_id, is_dirty) /\ saved' = SavedAfterUnpin(page_id, is_dirty) /\ UNCHANGED <<last, threads, history, entries, tree>>
  \/ \E page_id \in PageArgs : FlushPgImp(page_id) /\ UNCHANGED <<last, saved, threads, history, entries, tree>>
  \/ \E page_id \in PageArgs : DeletePgImp(page_id) /\ saved' = SavedAfterDelete(page_id) /\ UNCHANGED <<last, threads, history, entries, tree>>
  \/ \E frame_id \in FrameIds, data \in Data :
        WriteData(frame_id, data) /\ saved' = SavedAfterWrite(frame_id) /\ UNCHANGED <<last, threads, history, entries, tree>>

SpecData == Init /\ [][NextData]_vars

(***************************************************************************)
(* Properties of SpecData.                                                 *)
(***************************************************************************)
\* delete_page empties frame f in this step
DeletedHere(f) == pages_'[f].page_id = INVALID_PAGE_ID /\ InFreeList(f)'

\* frame f is given another page in this step
Loaded(f) == pages_'[f].page_id # pages_[f].page_id /\ pages_'[f].page_id # INVALID_PAGE_ID

\* frame f holds changed bytes that are also on the disk, is not dirty, and was
\* pinned once since it was loaded
FreshFromDisk(f) ==
  /\ pages_[f].page_id # INVALID_PAGE_ID
  /\ pages_[f].pin_count = 1
  /\ replacer_.access_record_map_[f] = 1
  /\ ~pages_[f].is_dirty
  /\ pages_[f].data # 0
  /\ pages_[f].data = disk[pages_[f].page_id]

LoadContract ==
  [][\A f \in FrameIds :
       Loaded(f) =>
         /\ pages_'[f].pin_count = 1
         /\ ~pages_'[f].is_dirty
         /\ NewPgImp \/ \E p \in Allocated : FetchPgImp(p)
         /\ NewPgImp =>
              /\ pages_'[f].page_id = next_page_id_
              /\ pages_'[f].page_id \notin Allocated
              /\ pages_'[f].data = 0
         /\ \A p \in Allocated :
              FetchPgImp(p) =>
                /\ ~Resident(p)
                /\ pages_'[f].page_id = p
                /\ pages_'[f].data = disk[p]
                /\ disk'[p] = disk[p]]_vars

\* C7, its case: one frame holds the page of the latest new_page, zeroed and
\* pinned once, the other a page that a fetch_page miss read back from the disk
\* with the bytes it was evicted with
NewBesideFetched ==
  \E f, g \in FrameIds :
    /\ FreshFromDisk(f)
    /\ saved[pages_[f].page_id] = pages_[f].data
    /\ next_page_id_ > 0
    /\ pages_[g] = [page_id |-> next_page_id_ - 1, pin_count |-> 1, is_dirty |-> FALSE, data |-> 0]
    /\ replacer_.access_record_map_[g] = 1

\* C10: flush_page(p) of a resident p leaves the disk image of p equal to the
\* bytes in memory and the page not dirty, whatever the dirty flag and the pin
\* count were, and changes nothing else; flush_page of a page that is not
\* resident, INVALID_PAGE_ID included, writes nothing and changes nothing.
FlushContract ==
  /\ [](~Resident(INVALID_PAGE_ID))
  /\ [][\A p \in PageArgs :
          FlushPgImp(p) =>
            IF Resident(p)
            THEN /\ ~FlushRefused(p)
                 /\ disk' = [disk EXCEPT ![p] = pages_[FrameOf(p)].data]
                 /\ pages_' = [pages_ EXCEPT ![FrameOf(p)].is_dirty = FALSE]
                 /\ UNCHANGED <<free_list_, page_table_, replacer_, next_page_id_>>
            ELSE FlushRefused(p) /\ UNCHANGED bpm]_vars

\* C10, its case: the only page allocated so far, so that nothing was ever
\* evicted, is pinned and not dirty, and the disk has its changed bytes
FlushedWhilePinned ==
  /\ next_page_id_ = 1
  /\ Resident(0)
  /\ pages_[FrameOf(0)].pin_count > 0
  /\ ~pages_[FrameOf(0)].is_dirty
  /\ pages_[FrameOf(0)].data # 0
  /\ disk[0] = pages_[FrameOf(0)].data

\* C12: delete_page(p) returns true and changes nothing when p is not resident,
\* returns false and changes nothing when p is resident and pinned, and otherwise
\* returns true with p out of the page table, its frame untracked by the replacer
\* and in the free list, and the frame's page reset: INVALID_PAGE_ID, pin_count 0,
\* not dirty, zeroed bytes.
DeleteContract ==
  [][\A p \in PageArgs :
       DeletePgImp(p) =>
         IF ~Resident(p) THEN DeletePgCall(p).ret /\ UNCHANGED bpm
         ELSE IF pages_[FrameOf(p)].pin_count > 0 THEN ~DeletePgCall(p).ret /\ UNCHANGED bpm
         ELSE /\ DeletePgCall(p).ret
              /\ ~Find(page_table_', p).found
              /\ replacer_'.access_record_map_[FrameOf(p)] = 0
              /\ ~replacer_'.evictable_map_[FrameOf(p)]
              /\ \A i \in 1 .. Len(replacer_'.outer_list_) : replacer_'.outer_list_[i] # FrameOf(p)
              /\ \A i \in 1 .. Len(replacer_'.pool_cache_list_) : replacer_'.pool_cache_list_[i] # FrameOf(p)
              /\ free_list_' = Append(free_list_, FrameOf(p))
              /\ pages_'[FrameOf(p)] =
                   [page_id |-> INVALID_PAGE_ID, pin_count |-> 0, is_dirty |-> FALSE, data |-> 0]
              /\ UNCHANGED <<next_page_id_, disk>>]_vars

\* C12, its case: frame 0, used first, is back in the free list behind nothing
\* while a page whose bytes were written to the disk is not resident and frame 1
\* holds a pinned page
DeletedFrameFree ==
  /\ free_list_ = <<0>>
  /\ pages_[0] = NewPage
  /\ pages_[1].pin_count > 0
  /\ \E p \in Allocated : ~Resident(p) /\ disk[p] # 0

(***************************************************************************)
(* SpecThreads: two threads call the pool.  Every public call begins with  *)
(* std::scoped_lock on latch_ and holds it until it returns; FetchPgImp is *)
(* split at its page-table lookup.  The threads call new_page, fetch_page, *)
(* unpin_page(p, true), delete_page and flush_all_pages; the bytes of the  *)
(* pages are not followed.                                                 *)
(***************************************************************************)
\* new_page is called while fewer ids than this are handed out or asked for
MaxPageThreads == PoolSize

\* the calls of op on page_id that have begun and not returned
Pending(op, page_id) ==
  Cardinality({t \in Threads : threads[t].pc # "idle" /\ threads[t].op = op /\ threads[t].page_id = page_id})

\* fetch_page(page_id) may begin: with the fetches under way the pin count and
\* the access count stay within the bounds
FetchableBy(page_id) ==
  LET found == Find(page_table_, page_id)
      n == Pending("fetch_page", page_id)
  IN /\ (IF found.found THEN pages_[found.value].pin_count ELSE 0) + n < MaxPin
     /\ (IF found.found THEN replacer_.access_record_map_[found.value] ELSE 0) + n < MaxAccess

\* a lock that nothing guards
NoLatch == TRUE

\* latch_ is free: std::scoped_lock<std::mutex> lock(latch_) goes on
LatchFree == \A t \in Threads : "latch_" \notin threads[t].holds

\* thread t calls op(page_id, is_dirty)
Enter(t, op, page_id, is_dirty) ==
  /\ threads[t].pc = "idle"
  /\ threads' = [u \in Threads |->
                   IF u = t
                   THEN [IdleThread EXCEPT !.pc = "latch", !.op = op, !.page_id = page_id,
                                           !.is_dirty = is_dirty,
                                           !.peers = {v \in Threads \ {t} : threads[v].pc # "idle"},
                                           !.cold = ~Find(page_table_, page_id).found]
                   ELSE IF threads[u].pc # "idle"
                        THEN [threads[u] EXCEPT !.peers = @ \cup {t}]
                        ELSE threads[u]]
  /\ UNCHANGED <<bpm, last, saved, history, entries, tree>>

\* std::scoped_lock<std::mutex> lock(latch_) at the head of every public call
Lock(t) ==
  /\ threads[t].pc = "latch"
  /\ LatchFree
  /\ threads' = [threads EXCEPT ![t].pc = "locked", ![t].holds = {"latch_"}]
  /\ UNCHANGED <<bpm, last, saved, history, entries, tree>>

\* thread t returns from fetch_page: the scoped_lock releases latch_
Return(t, ret, frame, read) ==
  /\ threads' = [threads EXCEPT ![t].pc = "idle", ![t].holds = {}, ![t].ret = ret,
                                ![t].frame = frame, ![t].read = read]
  /\ UNCHANGED <<last, saved, history, entries, tree>>

\* thread t returns from another call, whose result is not kept
Leave(t) ==
  /\ threads' = [threads EXCEPT ![t] = IdleThread]
  /\ UNCHANGED <<last, saved, history, entries, tree>>

NewPgBody(t) ==
  /\ threads[t].pc = "locked" /\ threads[t].op = "new_page"
  /\ NewPgImp
  /\ Leave(t)

\* page_table_->Find(page_id, frame_id) of FetchPgImp
FetchLookup(t) ==
  /\ threads[t].pc = "locked" /\ threads[t].op = "fetch_page"
  /\ threads' = [threads EXCEPT ![t].pc = "looked", ![t].found = Find(page_table_, threads[t].page_id)]
  /\ UNCHANGED <<bpm, last, saved, history, entries, tree>>

\* FetchPgImp after the lookup: the hit, or the miss that reads the page
FetchBody(t) ==
  LET page_id == threads[t].page_id
      found == threads[t].found
  IN /\ threads[t].pc = "looked"
     /\ IF found.found
        THEN FetchHit(page_id, found.value) /\ Return(t, TRUE, found.value, FALSE)
        ELSE FetchMiss(page_id) /\ Return(t, ~NoFrameLeft, IF NoFrameLeft THEN NoFrame ELSE PickFrame.frame_id,
                                          ~NoFrameLeft)

UnpinBody(t) ==
  /\ threads[t].pc = "locked" /\ threads[t].op = "unpin_page"
  /\ UnpinPgImp(threads[t].page_id, threads[t].is_dirty)
  /\ Leave(t)

DeleteBody(t) ==
  /\ threads[t].pc = "locked" /\ threads[t].op = "delete_page"
  /\ DeletePgImp(threads[t].page_id)
  /\ Leave(t)

\* FlushAllPgsImp holds latch_ and calls FlushPgImp(pages_[0].GetPageId()), whose
\* first statement locks latch_ again.  Locking a std::mutex the thread owns is
\* undefined: the thread waits for itself for ever, or the lock fails with
\* std::system_error, which leaves FlushAllPgsImp and releases latch_.
FlushAllRelock(t) ==
  /\ threads[t].pc = "locked" /\ threads[t].op = "flush_all_pages"
  /\ \/ threads' = [threads EXCEPT ![t].pc = "blocked"]
     \/ threads' = [threads EXCEPT ![t].pc = "idle", ![t].holds = {}, ![t].threw = TRUE]
  /\ UNCHANGED <<bpm, last, saved, history, entries, tree>>

NextThreads ==
  \E t \in Threads :
    \/ /\ next_page_id_ + Pending("new_page", INVALID_PAGE_ID) < MaxPageThreads
       /\ Enter(t, "new_page", INVALID_PAGE_ID, FALSE)
    \/ \E page_id \in Allocated : FetchableBy(page_id) /\ Enter(t, "fetch_page", page_id, FALSE)
    \/ \E page_id \in Allocated : Enter(t, "unpin_page", page_id, TRUE)
    \/ \E page_id \in Allocated : Enter(t, "delete_page", page_id, FALSE)
    \/ Enter(t, "flush_all_pages", INVALID_PAGE_ID, FALSE)
    \/ Lock(t)
    \/ NewPgBody(t)
    \/ FetchLookup(t)
    \/ FetchBody(t)
    \/ UnpinBody(t)
    \/ DeleteBody(t)
    \/ FlushAllRelock(t)

SpecThreads == Init /\ [][NextThreads]_vars

\* C11: a thread in flush_all_pages never waits for the latch it holds itself and
\* never leaves the call by an exception: the call returns, with every resident
\* page written and clean.
FlushAllReturns ==
  \A t \in Threads :
    threads[t].op = "flush_all_pages" => threads[t].pc # "blocked" /\ ~threads[t].threw

\* threads t and u have both returned from fetch_page of one page that was not
\* resident when either call began, and the two calls overlapped
ColdFetchedTogether(t, u) ==
  /\ t # u
  /\ threads[t].pc = "idle" /\ threads[u].pc = "idle"
  /\ threads[t].op = "fetch_page" /\ threads[u].op = "fetch_page"
  /\ threads[t].page_id = threads[u].page_id
  /\ u \in threads[t].peers /\ t \in threads[u].peers
  /\ threads[t].cold /\ threads[u].cold

\* C13: when two threads fetch the same non-resident page at the same time and a
\* frame can be had, the page is read from disk exactly once, both calls return
\* the same frame and its pin count is 2: the second caller hits the page table.
FetchedOnce ==
  \A t, u \in Threads :
    ColdFetchedTogether(t, u) /\ (threads[t].ret \/ threads[u].ret) =>
      /\ threads[t].ret /\ threads[u].ret
      /\ threads[t].frame = threads[u].frame
      /\ threads[t].read # threads[u].read
      /\ pages_[threads[t].frame].page_id = threads[t].page_id
      /\ pages_[threads[t].frame].pin_count = 2

\* C13, its case: both threads are back from their overlapping fetch of a page
\* that had to be read, and the other page is still resident
BothFetched ==
  \E t, u \in Threads :
    /\ ColdFetchedTogether(t, u)
    /\ threads[t].ret /\ threads[u].ret
    /\ threads[t].read
    /\ free_list_ = <<>>

(***************************************************************************)
(* SpecLocks: the mutexes only.  A public call takes latch_, then makes    *)
(* its calls into the page table and the replacer in the order of its      *)
(* code; each of those takes the mutex of its object for its own duration. *)
(* Which branch a call follows is left open: every path through the code   *)
(* of the call is tried.                                                   *)
(***************************************************************************)
TableCalls == {"page_table_->Find", "page_table_->Remove", "page_table_->Insert"}
ReplacerCalls == {"replacer_->Evict", "replacer_->RecordAccess", "replacer_->SetEvictable",
                  "replacer_->Remove"}
InnerMutexes == {"page_table_->latch_", "replacer_->latch_"}

\* the mutex a call into the page table or the replacer takes on entry
MutexOf(call) == IF call \in TableCalls THEN "page_table_->latch_" ELSE "replacer_->latch_"

\* the calls that can leave by throw std::exception()
Throwing == {"replacer_->RecordAccess", "replacer_->SetEvictable", "replacer_->Remove"}

\* the tail of NewPgImp and FetchPgImp once a frame is chosen
Install ==
  <<"page_table_->Remove", "replacer_->RecordAccess", "replacer_->SetEvictable", "page_table_->Insert">>

\* the sequences of inner calls a public call can make, one per path of its code
Paths(op) ==
  CASE op = "new_page" ->
         {<<>>, Install, <<"replacer_->Evict">>, <<"replacer_->Evict">> \o Install}
    [] op = "fetch_page" ->
         {<<"page_table_->Find", "replacer_->RecordAccess", "replacer_->SetEvictable">>,
          <<"page_table_->Find">>,
          <<"page_table_->Find">> \o Install,
          <<"page_table_->Find", "replacer_->Evict">>,
          <<"page_table_->Find", "replacer_->Evict">> \o Install}
    [] op = "unpin_page" ->
         {<<"page_table_->Find">>, <<"page_table_->Find", "replacer_->SetEvictable">>}
    [] op = "flush_page" -> {<<>>, <<"page_table_->Find">>}
    [] op = "delete_page" ->
         {<<"page_table_->Find">>,
          <<"page_table_->Find", "page_table_->Remove", "replacer_->Remove">>}
    [] OTHER -> {<<>>}

LockOps == {"new_page", "fetch_page", "unpin_page", "flush_page", "delete_page", "flush_all_pages"}

\* a scoped_lock that does not let go
Kept(holds, mutex) == holds

\* the scoped_lock of an inner call goes out of scope
Released(holds, mutex) == holds \ {mutex}

\* thread t calls op and will follow path
Invoke(t, op, path) ==
  /\ threads[t].pc = "idle"
  /\ threads' = [threads EXCEPT ![t] = [IdleThread EXCEPT !.pc = "latch", !.op = op, !.todo = path]]
  /\ UNCHANGED <<bpm, last, saved, history, entries, tree>>

\* std::scoped_lock<std::mutex> lock(latch_) at the head of a page-table or
\* replacer method called from the pool
InnerLock(t) ==
  /\ threads[t].pc = "locked" /\ threads[t].op # "flush_all_pages"
  /\ threads[t].todo # <<>>
  /\ \A u \in Threads : MutexOf(Head(threads[t].todo)) \notin threads[u].holds
  /\ threads' = [threads EXCEPT ![t].pc = "inner",
                                ![t].holds = @ \cup {MutexOf(Head(threads[t].todo))}]
  /\ UNCHANGED <<bpm, last, saved, history, entries, tree>>

\* the page-table or replacer method returns
InnerUnlock(t) ==
  /\ threads[t].pc = "inner"
  /\ threads' = [threads EXCEPT ![t].pc = "locked",
                                ![t].holds = Released(@, MutexOf(Head(threads[t].todo))),
                                ![t].todo = Tail(@)]
  /\ UNCHANGED <<bpm, last, saved, history, entries, tree>>

\* the replacer method throws: the stack unwinds through both scoped_locks
InnerThrow(t) ==
  /\ threads[t].pc = "inner"
  /\ Head(threads[t].todo) \in Throwing
  /\ threads' = [threads EXCEPT ![t] = [IdleThread EXCEPT !.op = threads[t].op, !.threw = TRUE]]
  /\ UNCHANGED <<bpm, last, saved, history, entries, tree>>

\* the public call returns: its scoped_lock releases latch_
Unlock(t) ==
  /\ threads[t].pc = "locked" /\ threads[t].op # "flush_all_pages"
  /\ threads[t].todo = <<>>
  /\ threads' = [threads EXCEPT ![t] = [IdleThread EXCEPT !.op = threads[t].op]]
  /\ UNCHANGED <<bpm, last, saved, history, entries, tree>>

NextLocks ==
  \E t \in Threads :
    \/ \E op \in LockOps : \E path \in Paths(op) : Invoke(t, op, path)
    \/ Lock(t)
    \/ InnerLock(t)
    \/ InnerUnlock(t)
    \/ InnerThrow(t)
    \/ Unlock(t)
    \/ FlushAllRelock(t)

SpecLocks == Init /\ [][NextLocks]_vars

\* thread t waits for latch_
RequestsLatch(t) == threads[t].pc \in {"latch", "blocked"}

\* C14: a thread that holds the page-table mutex or the replacer mutex holds
\* latch_ too (it took latch_ first) and is not waiting for latch_, and no thread
\* holds the page-table mutex and the replacer mutex together: between the three
\* mutexes the only orders are latch_ -> page table and latch_ -> replacer.
LockOrder ==
  \A t \in Threads :
    /\ threads[t].holds \cap InnerMutexes # {} => "latch_" \in threads[t].holds /\ ~RequestsLatch(t)
    /\ ~(InnerMutexes \subseteq threads[t].holds)

\* C14, its case: one thread is inside a replacer call, holding latch_ and the
\* replacer mutex after it has been through the page table, while the other
\* thread waits for latch_
InsideReplacer ==
  \E t, u \in Threads :
    /\ threads[t].holds = {"latch_", "replacer_->latch_"}
    /\ threads[t].op = "fetch_page"
    /\ Head(threads[t].todo) = "replacer_->RecordAccess"
    /\ RequestsLatch(u)

(***************************************************************************)
(* SpecReplacer: the LRU-K replacer alone, under any sequence of           *)
(* record_access, set_evictable, evict and remove with frame ids from      *)
(* -1 to replacer_size.  history numbers the accesses: times[f] are the    *)
(* timestamps of the accesses of f recorded since f was last untracked.    *)
(***************************************************************************)
\* accesses recorded in one run
MaxClock == 5

\* what the last call on the replacer was and how it ended
ReplacerCall(op, frame_id, set_evictable, threw, found, victim) ==
  [op |-> op, frame_id |-> frame_id, set_evictable |-> set_evictable, threw |-> threw,
   found |-> found, victim |-> victim]

\* what the replacer calls leave alone
ReplacerFrame ==
  UNCHANGED <<pages_, free_list_, page_table_, next_page_id_, disk, saved, threads, entries, tree>>

\* record_access(frame_id)
RecordAccessCall(frame_id) ==
  /\ history.clock < MaxClock
  /\ replacer_' = RecordAccess(replacer_, frame_id)
  /\ history' = IF InvalidFrame(frame_id) THEN history
                ELSE [clock |-> history.clock + 1,
                      times |-> [history.times EXCEPT ![frame_id] = Append(@, history.clock + 1)]]
  /\ last' = ReplacerCall("record_access", frame_id, FALSE, InvalidFrame(frame_id), FALSE, NoFrame)
  /\ ReplacerFrame

\* set_evictable(frame_id, set_evictable)
SetEvictableCall(frame_id, set_evictable) ==
  /\ replacer_' = SetEvictable(replacer_, frame_id, set_evictable)
  /\ last' = ReplacerCall("set_evictable", frame_id, set_evictable, InvalidFrame(frame_id), FALSE, NoFrame)
  /\ UNCHANGED history
  /\ ReplacerFrame

\* evict()
EvictCall ==
  LET e == Evict(replacer_)
  IN /\ replacer_' = e.replacer
     /\ history' = IF e.found THEN [history EXCEPT !.times[e.frame_id] = <<>>] ELSE history
     /\ last' = ReplacerCall("evict", NoFrame, FALSE, FALSE, e.found, e.frame_id)
     /\ ReplacerFrame

\* remove(frame_id); found records that the frame was tracked and is dropped
RemoveCall(frame_id) ==
  /\ replacer_' = ReplacerRemove(replacer_, frame_id)
  /\ history' = IF RemoveThrows(replacer_, frame_id) THEN history
                ELSE [history EXCEPT !.times[frame_id] = <<>>]
  /\ last' = ReplacerCall("remove", frame_id, FALSE, RemoveThrows(replacer_, frame_id),
                           ~RemoveThrows(replacer_, frame_id) /\ replacer_.access_record_map_[frame_id] # 0,
                           NoFrame)
  /\ ReplacerFrame

NextReplacer ==
  \/ \E frame_id \in FrameKeys : RecordAccessCall(frame_id)
  \/ \E frame_id \in FrameKeys : \E set_evictable \in BOOLEAN : SetEvictableCall(frame_id, set_evictable)
  \/ EvictCall
  \/ \E frame_id \in FrameKeys : RemoveCall(frame_id)

SpecReplacer == Init /\ [][NextReplacer]_vars

\* the frames the replacer marks evictable
EvictableFrames == {f \in FrameKeys : replacer_.evictable_map_[f]}

\* the accesses recorded for frame f
Accesses(f) == Len(history.times[f])

\* the time of the K-th most recent access of f, for a frame with K accesses or more
KthLatest(f) == history.times[f][Accesses(f) - K + 1]

\* only frame ids of [0, replacer_size) are tracked
OnlyValidTracked == \A f \in FrameKeys \ FrameIds : replacer_.access_record_map_[f] = 0

\* C15: when every evictable frame has K recorded accesses or more, evict returns
\* the evictable frame with the largest backward K-distance: the one whose K-th
\* most recent access is the oldest.  Stated for replacers that track frame ids
\* of [0, replacer_size) only.
EvictsLargestKDistance ==
  [][/\ EvictCall
     /\ OnlyValidTracked
     /\ EvictableFrames # {}
     /\ \A f \in EvictableFrames : Accesses(f) >= K
     =>
       /\ last'.found
       /\ last'.victim \in EvictableFrames
       /\ \A g \in EvictableFrames : KthLatest(last'.victim) <= KthLatest(g)]_vars

\* the evictable frames with fewer than K recorded accesses
YoungFrames == {f \in EvictableFrames : Accesses(f) < K}

\* C16: when some evictable frame has fewer than K recorded accesses, evict
\* returns such a frame, and among them the one whose earliest access is the
\* oldest; so a frame with K accesses or more is returned only when no evictable
\* frame has fewer.
EvictsYoungFirst ==
  [][EvictCall /\ YoungFrames # {} =>
       /\ last'.found
       /\ last'.victim \in YoungFrames
       /\ \A g \in YoungFrames : history.times[last'.victim][1] <= history.times[g][1]]_vars

\* C16, its case: of three accesses the first and third were of frame 0, which
\* is still evictable with its K accesses, and evict has returned frame 1 with
\* its single access
EvictedYoungFrame ==
  /\ last.op = "evict" /\ last.found /\ last.victim = 1
  /\ history.clock = 3
  /\ history.times[0] = <<1, 3>>
  /\ replacer_.evictable_map_[0]

\* the tracked frames: those with an access on record in the replacer
Tracked == {f \in FrameKeys : replacer_.access_record_map_[f] # 0}

\* C17: evict returns a frame only if that frame is marked evictable when evict
\* is called, returns none exactly when no tracked frame is marked evictable,
\* and a successful evict takes exactly 1 off size().
EvictContract ==
  [][EvictCall =>
       /\ last'.found => /\ last'.victim \in EvictableFrames
                         /\ Size(replacer_') = Size(replacer_) - 1
       /\ ~last'.found <=> Tracked \cap EvictableFrames = {}]_vars

\* C17, its case: evict has passed over frame 1, accessed first and not
\* evictable, and returned frame 0, accessed second
EvictedPastPinned ==
  /\ last.op = "evict" /\ last.found /\ last.victim = 0
  /\ history.clock = 2
  /\ history.times[1] = <<1>>
  /\ ~replacer_.evictable_map_[1]
  /\ replacer_.outer_list_ = <<1>>

\* C18: size() is the number of frames marked evictable, after any sequence of
\* record_access, set_evictable, evict and remove; and set_evictable(f, b) moves
\* the size by one, up for b true and down for b false, exactly when f is tracked
\* and its flag differs from b, and otherwise changes nothing in the replacer.
SizeCountsEvictable ==
  /\ [](Size(replacer_) = Cardinality(EvictableFrames) /\ EvictableFrames \subseteq Tracked)
  /\ [][\A f \in FrameKeys : \A b \in BOOLEAN :
          SetEvictableCall(f, b) =>
            IF f \in Tracked /\ replacer_.evictable_map_[f] # b
            THEN /\ replacer_'.evictable_map_ = [replacer_.evictable_map_ EXCEPT ![f] = b]
                 /\ Size(replacer_') = Size(replacer_) + (IF b THEN 1 ELSE -1)
            ELSE UNCHANGED replacer_]_vars

\* C18, its case: set_evictable(0, false) has just been called on frame 0, which
\* is tracked with K accesses, while frame 1 is the one evictable frame
OneOfTwoEvictable ==
  /\ last.op = "set_evictable" /\ last.frame_id = 0 /\ ~last.set_evictable
  /\ replacer_.access_record_map_[0] = K
  /\ EvictableFrames = {1}
  /\ Size(replacer_) = 1

\* C19: record_access, set_evictable and remove with a frame_id outside
\* [0, replacer_size), above it or negative, fail with an error and leave the
\* replacer as it was.
RejectsOutOfRange ==
  [][\A f \in FrameKeys \ FrameIds :
       (RecordAccessCall(f) \/ (\E b \in BOOLEAN : SetEvictableCall(f, b)) \/ RemoveCall(f)) =>
         last'.threw /\ UNCHANGED replacer_]_vars

\* C20: remove(f) on a tracked frame that is not evictable fails with an error
\* and changes nothing; on an untracked frame it returns and changes nothing; on
\* a tracked evictable frame it takes f out of the list that holds it, clears its
\* access count and its evictable flag, and takes exactly 1 off size().
RemoveContract ==
  [][\A f \in FrameIds :
       RemoveCall(f) =>
         IF f \notin Tracked THEN ~last'.threw /\ UNCHANGED replacer_
         ELSE IF ~replacer_.evictable_map_[f] THEN last'.threw /\ UNCHANGED replacer_
         ELSE /\ ~last'.threw
              /\ f \in replacer_.outer_index_ \cup replacer_.pool_cache_index_
              /\ replacer_'.outer_list_ = SeqWithout(replacer_.outer_list_, f)
              /\ replacer_'.pool_cache_list_ = SeqWithout(replacer_.pool_cache_list_, f)
              /\ f \notin replacer_'.outer_index_ \cup replacer_'.pool_cache_index_
              /\ replacer_'.access_record_map_ = [replacer_.access_record_map_ EXCEPT ![f] = 0]
              /\ replacer_'.evictable_map_ = [replacer_.evictable_map_ EXCEPT ![f] = FALSE]
              /\ Size(replacer_') = Size(replacer_) - 1]_vars

\* C20, its case: remove(0) has dropped frame 0 while frame 1, evictable with K
\* accesses, stays where it was
RemovedBesideCached ==
  /\ last.op = "remove" /\ last.frame_id = 0 /\ last.found /\ ~last.threw
  /\ replacer_.pool_cache_list_ = <<1>>
  /\ replacer_.evictable_map_[1]
  /\ Size(replacer_) = 1

(***************************************************************************)
(* SpecTable: one extendible hash table (page_table_) on its own, under    *)
(* any sequence of Insert, Remove and Find with keys -1 .. MaxKey.         *)
(* entries is the plain map the calls describe: the value last inserted    *)
(* for a key and not removed since, NoValue otherwise.                     *)
(***************************************************************************)
\* what the last call on the table was and what it returned
TableCall(op, key, value, ret) == [op |-> op, key |-> key, value |-> value, ret |-> ret]

\* what the table calls leave alone
TableFrame ==
  UNCHANGED <<pages_, free_list_, replacer_, next_page_id_, disk, saved, threads, history, tree>>

\* the number of times the loop of Insert(key, value) on t splits a bucket
RECURSIVE Splits(_, _, _)
Splits(t, key, value) ==
  IF BucketInsert(t.buckets[t.dir[IndexOf(t, key) + 1]], key, value).ok THEN 0
  ELSE 1 + Splits(SplitBucket(t, IndexOf(t, key)), key, value)

\* Insert(key, value); of the call are also recorded whether the key was stored
\* when it began and how often its loop ran
TableInsert(key, value) ==
  /\ page_table_' = Insert(page_table_, key, value)
  /\ entries' = [entries EXCEPT ![key] = value]
  /\ last' = [op |-> "Insert", key |-> key, value |-> value, ret |-> TRUE,
              stored |-> Find(page_table_, key).found,
              splits |-> Splits(page_table_, key, value)]
  /\ TableFrame

\* Remove(key)
TableRemove(key) ==
  /\ page_table_' = Remove(page_table_, key)
  /\ entries' = [entries EXCEPT ![key] = NoValue]
  /\ last' = TableCall("Remove", key, NoValue, RemoveOk(page_table_, key))
  /\ TableFrame

\* Find(key, value)
TableFind(key) ==
  /\ last' = TableCall("Find", key, Find(page_table_, key).value, Find(page_table_, key).found)
  /\ UNCHANGED <<page_table_, entries>>
  /\ TableFrame

NextTable ==
  \/ \E key \in TableKeys : \E value \in TableValues : TableInsert(key, value)
  \/ \E key \in TableKeys : TableRemove(key)
  \/ \E key \in TableKeys : TableFind(key)

SpecTable == Init /\ [][NextTable]_vars

\* the buckets the directory of t refers to
Referenced(t) == {t.dir[i] : i \in 1 .. Len(t.dir)}

\* the positions of every stored pair: <<bucket, place in its list>>
Stored(t) == {<<b, i>> \in Referenced(t) \X (1 .. MaxKey + 2) : i <= Len(t.buckets[b].list)}

\* the keys that have a value in entries
Present == {k \in TableKeys : entries[k] # NoValue}

\* C21: the table is a plain map.  Find(k) gives the value of the latest
\* Insert(k, v) not followed by Remove(k) and nothing otherwise; a key is stored
\* once however often it is inserted and whatever splits happen; and Remove(k)
\* returns true exactly when k was present.
TableIsMap ==
  /\ [](/\ \A k \in TableKeys :
             Find(page_table_, k).found = (k \in Present)
             /\ (k \in Present => Find(page_table_, k).value = entries[k])
        /\ Cardinality(Stored(page_table_)) = Cardinality(Present))
  /\ [][\A k \in TableKeys : TableRemove(k) => last'.ret = (k \in Present)]_vars

\* C21, its case: keys -1 and 3, which agree in their two low bits, sit in a
\* directory of global depth 3, and Remove has just taken key 1 out
SplitThenRemoved ==
  /\ GetGlobalDepth(page_table_) = 3
  /\ Present = {-1, 3}
  /\ last.op = "Remove" /\ last.key = 1 /\ last.ret

\* directory slots i and j agree in their low n bits
SameLowBits(i, j, n) == i % Pow2(n) = j % Pow2(n)

\* C22: after every Insert and Remove the directory has 2^global_depth slots,
\* no bucket is deeper than the directory, two slots share a bucket exactly when
\* their indices agree in the low local-depth bits (so a bucket of depth L has
\* 2^(G-L) slots), and no bucket holds more than bucket_size pairs.
DirectoryShape ==
  LET t == page_table_
      slots == 0 .. Len(t.dir) - 1
  IN /\ Len(t.dir) = Pow2(GetGlobalDepth(t))
     /\ \A i \in slots :
          /\ GetLocalDepth(t, i) <= GetGlobalDepth(t)
          /\ Len(t.buckets[t.dir[i + 1]].list) <= BucketSize
          /\ Cardinality({j \in slots : t.dir[j + 1] = t.dir[i + 1]})
               = Pow2(GetGlobalDepth(t) - GetLocalDepth(t, i))
          /\ \A j \in slots :
               t.dir[i + 1] = t.dir[j + 1] <=> SameLowBits(i, j, GetLocalDepth(t, i))

\* C22, its case: a directory of depth 3 in which a bucket of depth 1 is shared
\* by four slots and a bucket of depth 3 has one slot
UnevenDirectory ==
  /\ last.op = "Insert"
  /\ GetGlobalDepth(page_table_) = 3
  /\ \E i, j \in 0 .. 7 : GetLocalDepth(page_table_, i) = 1 /\ GetLocalDepth(page_table_, j) = 3

\* C23: num_buckets is 1 in a new table, goes up by exactly 1 for each bucket
\* split, and after every call is the number of distinct buckets the directory
\* refers to.
BucketsCounted ==
  /\ [](GetNumBuckets(page_table_) = Cardinality(Referenced(page_table_)))
  /\ [][/\ \A k \in TableKeys : \A v \in TableValues :
             TableInsert(k, v) =>
               GetNumBuckets(page_table_') = GetNumBuckets(page_table_) + Splits(page_table_, k, v)
        /\ \A k \in TableKeys :
             TableRemove(k) \/ TableFind(k) => GetNumBuckets(page_table_') = GetNumBuckets(page_table_)]_vars

\* C23, its case: one Insert has split twice over, taking a table of 2 buckets
\* to 4: key 3 came to the bucket of key -1 at global depth 1
TwoSplitsInOne ==
  /\ last.op = "Insert" /\ last.key = 3
  /\ Present = {-1, 0, 3}
  /\ GetNumBuckets(page_table_) = 4
  /\ GetGlobalDepth(page_table_) = 3

(***************************************************************************)
(* SpecTableThreads: two threads on one hash table.  Find, Remove and      *)
(* Insert take the table's latch_; Insert is followed through the writes   *)
(* of its split loop.  GetGlobalDepth, GetLocalDepth and GetNumBuckets     *)
(* have their scoped_lock commented out and read the members as they are.  *)
(***************************************************************************)
\* the keys the threads use
ThreadKeys == {0, 1, 2, 3}

TableLatchFree == \A t \in Threads : "page_table_->latch_" \notin threads[t].holds

\* what the calls of the threads on the table leave alone
TableThreadFrame ==
  UNCHANGED <<pages_, free_list_, replacer_, next_page_id_, disk, saved, history, tree, last>>

\* thread t calls Find, Remove or Insert with key
TableEnter(t, op, key) ==
  /\ threads[t].pc = "idle"
  /\ threads' = [threads EXCEPT ![t] = [IdleThread EXCEPT !.pc = "latch", !.op = op, !.page_id = key]]
  /\ UNCHANGED <<page_table_, entries>>
  /\ TableThreadFrame

\* std::scoped_lock<std::mutex> lock(latch_) of Find, Remove and Insert
TableLock(t) ==
  /\ threads[t].pc = "latch"
  /\ TableLatchFree
  /\ threads' = [threads EXCEPT ![t].pc = "locked", ![t].holds = {"page_table_->latch_"}]
  /\ UNCHANGED <<page_table_, entries>>
  /\ TableThreadFrame

\* Find under the latch
FindBody(t) ==
  /\ threads[t].pc = "locked" /\ threads[t].op = "Find"
  /\ threads' = [threads EXCEPT ![t] = [IdleThread EXCEPT !.op = "Find", !.page_id = threads[t].page_id,
                                                          !.found = Find(page_table_, threads[t].page_id)]]
  /\ UNCHANGED <<page_table_, entries>>
  /\ TableThreadFrame

\* Remove under the latch
RemoveBody(t) ==
  /\ threads[t].pc = "locked" /\ threads[t].op = "Remove"
  /\ page_table_' = Remove(page_table_, threads[t].page_id)
  /\ entries' = [entries EXCEPT ![threads[t].page_id] = NoValue]
  /\ threads' = [threads EXCEPT ![t] = [IdleThread EXCEPT !.op = "Remove", !.page_id = threads[t].page_id,
                                                          !.ret = RemoveOk(page_table_, threads[t].page_id)]]
  /\ TableThreadFrame

\* Insert: target_bucket->Insert(key, value), the condition of the while loop;
\* the value inserted is 0
InsertTry(t) ==
  LET key == threads[t].page_id
      directory_index == IndexOf(page_table_, key)
      id == page_table_.dir[directory_index + 1]
      r == BucketInsert(page_table_.buckets[id], key, 0)
  IN /\ threads[t].pc = "locked" /\ threads[t].op = "Insert"
     /\ IF r.ok
        THEN /\ page_table_' = [page_table_ EXCEPT !.buckets[id] = r.bucket]
             /\ entries' = [entries EXCEPT ![key] = 0]
             /\ threads' = [threads EXCEPT ![t] = [IdleThread EXCEPT !.op = "Insert", !.page_id = key]]
        ELSE /\ threads' = [threads EXCEPT ![t].pc = "split", ![t].directory_index = directory_index]
             /\ UNCHANGED <<page_table_, entries>>
     /\ TableThreadFrame

\* if (GetLocalDepth(directory_index) == GetGlobalDepth()) global_depth_++
SplitDepth(t) ==
  /\ threads[t].pc = "split"
  /\ IF GetLocalDepth(page_table_, threads[t].directory_index) = GetGlobalDepth(page_table_)
     THEN /\ page_table_' = [page_table_ EXCEPT !.global_depth = @ + 1]
          /\ threads' = [threads EXCEPT ![t].pc = "resize"]
     ELSE /\ threads' = [threads EXCEPT ![t].pc = "deepen"]
          /\ UNCHANGED page_table_
  /\ UNCHANGED entries
  /\ TableThreadFrame

\* dir_.resize(length << 1) and the copy of the lower half to the upper
SplitResize(t) ==
  /\ threads[t].pc = "resize"
  /\ page_table_' = [page_table_ EXCEPT !.dir = @ \o @]
  /\ threads' = [threads EXCEPT ![t].pc = "deepen"]
  /\ UNCHANGED entries
  /\ TableThreadFrame

\* target_bucket->IncrementDepth()
SplitDeepen(t) ==
  /\ threads[t].pc = "deepen"
  /\ page_table_' = [page_table_ EXCEPT !.buckets[page_table_.dir[threads[t].directory_index + 1]].depth = @ + 1]
  /\ threads' = [threads EXCEPT ![t].pc = "count"]
  /\ UNCHANGED entries
  /\ TableThreadFrame

\* num_buckets_++
SplitCount(t) ==
  /\ threads[t].pc = "count"
  /\ page_table_' = [page_table_ EXCEPT !.num_buckets = @ + 1]
  /\ threads' = [threads EXCEPT ![t].pc = "redirect"]
  /\ UNCHANGED entries
  /\ TableThreadFrame

\* 3.1: the slots of the split bucket go to new_bucket and old_bucket; the items
\* of the split bucket wait in todo
SplitRedirect(t) ==
  LET target == page_table_.dir[threads[t].directory_index + 1]
      depth == page_table_.buckets[target].depth
      mask == Pow2(depth - 1)
      old_bucket == Len(page_table_.buckets) + 1
  IN /\ threads[t].pc = "redirect"
     /\ page_table_' =
          [page_table_ EXCEPT
             !.dir = [i \in 1 .. Len(page_table_.dir) |->
                        IF page_table_.dir[i] = target
                        THEN IF ((i - 1) \div mask) % 2 = 0 THEN target ELSE old_bucket
                        ELSE page_table_.dir[i]],
             !.buckets = Append([page_table_.buckets EXCEPT ![target] = EmptyBucket(depth)],
                                EmptyBucket(depth))]
     /\ threads' = [threads EXCEPT ![t].pc = "move", ![t].todo = page_table_.buckets[target].list]
     /\ UNCHANGED entries
     /\ TableThreadFrame

\* 3.2: the items go to the bucket their index names; the loop tries again
SplitMove(t) ==
  /\ threads[t].pc = "move"
  /\ page_table_' = Redistribute(page_table_, threads[t].todo)
  /\ threads' = [threads EXCEPT ![t].pc = "locked", ![t].todo = <<>>]
  /\ UNCHANGED entries
  /\ TableThreadFrame

\* the members of the table an accessor can be asked about
Members(t) ==
  [global_depth |-> t.global_depth, slots |-> Len(t.dir), num_buckets |-> t.num_buckets,
   referenced |-> Cardinality(Referenced(t))]

\* GetGlobalDepth(), GetNumBuckets() or GetLocalDepth(dir_index): no lock is
\* taken, the member is read in whatever state the table is
Accessor(t, op, dir_index) ==
  /\ threads[t].pc = "idle"
  /\ dir_index < Len(page_table_.dir)
  /\ threads' = [threads EXCEPT ![t] =
       [IdleThread EXCEPT !.op = op,
                          !.seen = [value |-> CASE op = "GetGlobalDepth" -> GetGlobalDepth(page_table_)
                                                [] op = "GetNumBuckets" -> GetNumBuckets(page_table_)
                                                [] OTHER -> GetLocalDepth(page_table_, dir_index),
                                    members |-> Members(page_table_)]]]
  /\ UNCHANGED <<page_table_, entries>>
  /\ TableThreadFrame

NextTableThreads ==
  \E t \in Threads :
    \/ \E op \in {"Find", "Remove", "Insert"} : \E key \in ThreadKeys : TableEnter(t, op, key)
    \/ TableLock(t)
    \/ FindBody(t)
    \/ RemoveBody(t)
    \/ InsertTry(t)
    \/ SplitDepth(t)
    \/ SplitResize(t)
    \/ SplitDeepen(t)
    \/ SplitCount(t)
    \/ SplitRedirect(t)
    \/ SplitMove(t)
    \/ \E op \in {"GetGlobalDepth", "GetNumBuckets"} : Accessor(t, op, 0)
    \/ \E dir_index \in 0 .. 7 : Accessor(t, "GetLocalDepth", dir_index)

SpecTableThreads == Init /\ [][NextTableThreads]_vars

\* no thread is inside Find, Remove or Insert
TableQuiet == \A t \in Threads : threads[t].pc \in {"idle", "latch"}

Accessors == {"GetGlobalDepth", "GetLocalDepth", "GetNumBuckets"}

\* C24: with threads calling Insert, Find, Remove and the accessors at the same
\* time, what a call reads is a table as whole calls have left it: an accessor
\* never returns from a table whose global depth is ahead of its directory or
\* whose bucket count is ahead of the buckets the directory refers to.
AccessorsSeeWholeTable ==
  \A t \in Threads :
    threads[t].op \in Accessors =>
      /\ threads[t].seen.members.slots = Pow2(threads[t].seen.members.global_depth)
      /\ threads[t].seen.members.num_buckets = threads[t].seen.members.referenced

(***************************************************************************)
(* More properties of Spec.                                                *)
(***************************************************************************)
\* C28: a new_page, or a fetch_page of a page that is not resident, made while
\* every frame is pinned returns no page and leaves the pool as it was: replacer
\* (no access recorded, nothing evicted), page table, free list, frames, disk,
\* and the next page id, which the next new_page that succeeds hands out.
FailedCallNoEffect ==
  [][/\ EveryFramePinned /\ NewPgImp => ~NewPgCall.ret /\ UNCHANGED bpm
     /\ \A p \in Allocated :
          EveryFramePinned /\ ~Resident(p) /\ FetchPgImp(p) => ~FetchPgCall(p).ret /\ UNCHANGED bpm]_vars

\* C28, its case: new_page has failed with both frames pinned and page ids left,
\* and so has, before it or after, nothing else: the id it would have taken is
\* still the next one
NewPageRefused ==
  /\ last.op = "new_page" /\ ~last.ret
  /\ EveryFramePinned
  /\ next_page_id_ = PoolSize
  /\ ResidentPages = 0 .. PoolSize - 1

(***************************************************************************)
(* More properties of SpecData.                                            *)
(***************************************************************************)
\* this step put page p into the front frame of the free list and touched no
\* other frame, no other page-table entry, no other frame's replacer state and
\* not the disk
TookFreeFrame(p) ==
  LET frame_id == Head(free_list_)
  IN /\ Find(page_table_', p) = [found |-> TRUE, value |-> frame_id]
     /\ pages_'[frame_id].page_id = p
     /\ free_list_' = Tail(free_list_)
     /\ disk' = disk
     /\ \A q \in PageArgs : Resident(q) => Find(page_table_', q) = Find(page_table_, q)
     /\ \A f \in FrameIds \ {frame_id} :
          /\ pages_'[f] = pages_[f]
          /\ replacer_'.access_record_map_[f] = replacer_.access_record_map_[f]
          /\ replacer_'.evictable_map_[f] = replacer_.evictable_map_[f]

\* this step put page p into the frame Evict chooses in the state before it, and
\* the page that frame held is no longer in the page table
TookVictim(p) ==
  LET e == Evict(replacer_)
  IN /\ e.found
     /\ Find(page_table_', p) = [found |-> TRUE, value |-> e.frame_id]
     /\ pages_'[e.frame_id].page_id = p
     /\ ~Find(page_table_', pages_[e.frame_id].page_id).found
     /\ free_list_' = <<>>

InitK ==
  /\ entries = NewEntries
  /\ tree = NewTree
  /\ threads = [t \in Threads |-> IdleThread]
  /\ history = NewHistory
  /\ pages_ = [f \in FrameIds |-> NewPage]
  /\ free_list_ = [i \in 1 .. PoolSize |-> i - 1]
  /\ page_table_ = NewTable
  /\ \E k \in 1 .. K : replacer_ = [NewReplacer EXCEPT !.k_ = k]
  /\ next_page_id_ = 0
  /\ disk = [p \in PageIds |-> 0]
  /\ last = ReplacerCall("init", NoFrame, FALSE, FALSE, FALSE, NoFrame)
  /\ saved = [p \in PageIds |-> NoData]

\* RecordAccess reaches "outer_list_.erase(it)" with an iterator never stored
StrayErase(r, frame_id) ==
  /\ ~InvalidFrame(frame_id)
  /\ r.access_record_map_[frame_id] + 1 = r.k_
  /\ frame_id \notin r.outer_index_

\* record_access(frame_id) stops in the erase: the count is incremented, no list
\* has the frame, the call does not return and no call follows
RecordAccessCrash(frame_id) ==
  /\ history.clock < MaxClock
  /\ StrayErase(replacer_, frame_id)
  /\ replacer_' = [replacer_ EXCEPT !.access_record_map_[frame_id] = @ + 1, !.fault = TRUE]
  /\ history' = [clock |-> history.clock + 1,
                 times |-> [history.times EXCEPT ![frame_id] = Append(@, history.clock + 1)]]
  /\ last' = ReplacerCall("crashed", frame_id, FALSE, FALSE, FALSE, NoFrame)
  /\ ReplacerFrame

\* the process has not stopped
Running == last.op # "crashed"

NextReplacerK ==
  \/ \E frame_id \in FrameKeys : Running /\ RecordAccessCall(frame_id)
  \/ \E frame_id \in FrameKeys : Running /\ RecordAccessCrash(frame_id)
  \/ \E frame_id \in FrameKeys : \E set_evictable \in BOOLEAN :
        Running /\ SetEvictableCall(frame_id, set_evictable)
  \/ Running /\ EvictCall
  \/ \E frame_id \in FrameKeys : Running /\ RemoveCall(frame_id)

SpecReplacerK == InitK /\ [][NextReplacerK]_vars

\* how often frame f occurs in a list
Occurrences(list, f) == Cardinality({i \in 1 .. Len(list) : list[i] = f})

\* C30: whatever k the replacer was constructed with, a frame of
\* [0, replacer_size) with a positive access count is once in the history list and not in the cache list when the
\* count is below k, once in the cache list and not in the history list
\* otherwise; a frame with no access since it was constructed, evicted or
\* removed has count 0, is in neither list and is not evictable.
OneListPerFrame ==
  \A f \in FrameIds :
    LET n == replacer_.access_record_map_[f]
        in_history == Occurrences(replacer_.outer_list_, f)
        in_cache == Occurrences(replacer_.pool_cache_list_, f)
    IN /\ n > 0 /\ n < replacer_.k_ => in_history = 1 /\ in_cache = 0
       /\ n >= replacer_.k_ => in_history = 0 /\ in_cache = 1
       /\ Accesses(f) = 0 => n = 0 /\ in_history = 0 /\ in_cache = 0 /\ ~replacer_.evictable_map_[f]

(***************************************************************************)
(* B+ tree internal page.  A page is the sequence of its slots 0 .. size-1 *)
(* (slot i at position i + 1), a slot is [key, value] and the value is the *)
(* page id of a child.  What array_ holds beyond size is not part of the   *)
(* page.  Of tree:                                                         *)
(*   left, right     two sibling pages, held by the caller                 *)
(*   middle_key      the parent's separator between them                   *)
(*   pc, op          where the move is: idle, fetch, write, unpin, done,   *)
(*                   crashed                                               *)
(*   recipient       the page that adopts: "left" or "right"               *)
(*   items, todo     the slots CopyNFrom has copied beyond size; the       *)
(*                   children still to adopt                               *)
(*   frame           the frame FetchPage returned for the child            *)
(*   moved, before   the children the move hands over; pages, pin counts   *)
(*                   and parent ids when the move began                    *)
(*   lookup          page, key, ret of Lookup when it was the latest call  *)
(***************************************************************************)
MaxTreeKey == 3
\* the keys of the slots 1 .. size-1 and the separators
TreeKeys == 1 .. MaxTreeKey
\* the keys looked up, and the keys a slot 0 may be left with
LookupKeys == 0 .. MaxTreeKey + 1

\* the page ids of the two siblings: ids after those of the children
LeftId == MaxPage
RightId == MaxPage + 1
GetPageId(side) == IF side = "left" THEN LeftId ELSE RightId

\* the bytes of a child page that hold its parent_page_id
ParentBytes(page_id) == page_id - LeftId

GetSize(page) == Len(page)

KeyAt(page, index) == page[index + 1].key

ValueAt(page, index) == page[index + 1].value

\* a write that does not happen
KeyKept(page, index, key) == page

\* array_[index].first = key; a slot beyond size is not part of the page
SetKeyAt(page, index, key) ==
  IF index < GetSize(page) THEN [page EXCEPT ![index + 1].key = key] ELSE page

\* std::lower_bound over the slots first .. first + len - 1: the first slot whose
\* key is not below key, found by halving
RECURSIVE LowerBound(_, _, _, _)
LowerBound(page, first, len, key) ==
  IF len <= 0 THEN first
  ELSE LET half == len \div 2
           middle == first + half
       IN IF KeyAt(page, middle) < key
          THEN LowerBound(page, middle + 1, len - half - 1, key)
          ELSE LowerBound(page, first, half, key)

\* a search that starts at slot 0
LookupFromSlot0(page, key) ==
  LET target == LowerBound(page, 0, GetSize(page), key)
  IN IF target = GetSize(page) THEN ValueAt(page, GetSize(page) - 1)
     ELSE IF KeyAt(page, target) = key THEN ValueAt(page, target)
     ELSE IF target = 0 THEN ValueAt(page, 0)
     ELSE ValueAt(page, target - 1)

\* BPlusTreeInternalPage::Lookup
Lookup(page, key) ==
  LET target == LowerBound(page, 1, GetSize(page) - 1, key)
  IN IF target = GetSize(page) THEN ValueAt(page, GetSize(page) - 1)
     ELSE IF KeyAt(page, target) = key THEN ValueAt(page, target)
     ELSE ValueAt(page, target - 1)

\* the children of a sequence of slots
Children(page) == {page[i].value : i \in 1 .. Len(page)}

Values(page) == [i \in 1 .. Len(page) |-> page[i].value]

\* the pin count the pool has for page c
PinCount(c) == IF Resident(c) THEN pages_[FrameOf(c)].pin_count ELSE 0

\* the parent_page_id bytes of page c: in its frame, else on the disk
ChildBytes(c) == IF Resident(c) THEN pages_[FrameOf(c)].data ELSE disk[c]

Snapshot ==
  [left |-> tree.left, right |-> tree.right,
   pins |-> [c \in PageIds |-> PinCount(c)],
   parents |-> [c \in PageIds |-> ChildBytes(c)]]

\* what the steps of a move leave alone
TreeFrame == UNCHANGED <<last, saved, threads, history, entries>>

\* a move begins: this page and the recipient as the code leaves them before the
\* first FetchPage, and the slots whose children are to be adopted
Begin(op, recipient, left, right, items, adopted) ==
  /\ tree.pc = "idle"
  /\ tree' = [tree EXCEPT !.pc = "fetch", !.op = op, !.recipient = recipient,
                          !.left = left, !.right = right, !.items = items,
                          !.todo = Values(adopted), !.moved = Children(adopted),
                          !.before = Snapshot, !.lookup = NoLookup]
  /\ UNCHANGED bpm
  /\ TreeFrame

\* a MoveHalfTo that copies from the slot after min_size
MoveHalfLosingSlot(min_size) ==
  LET upper == SubSeq(tree.left, min_size + 2, GetSize(tree.left))
  IN Begin("move_half_to", "right", SubSeq(tree.left, 1, min_size), tree.right, upper, upper)

\* left.MoveHalfTo(right): SetSize(min_size), then CopyNFrom copies the slots
\* [min_size, size) behind the recipient's size
MoveHalfTo(min_size) ==
  LET upper == SubSeq(tree.left, min_size + 1, GetSize(tree.left))
  IN Begin("move_half_to", "right", SubSeq(tree.left, 1, min_size), tree.right, upper, upper)

\* right.MoveAllTo(left, middle_key): SetKeyAt(0, middle_key), then CopyNFrom
\* copies every slot behind the recipient's size
MoveAllTo ==
  LET this == SetKeyAt(tree.right, 0, tree.middle_key)
  IN /\ GetSize(tree.right) >= 1
     /\ Begin("move_all_to", "left", tree.left, this, this, this)

\* right.MoveFirstToEndOf(left, middle_key): SetKeyAt(0, middle_key), then
\* CopyLastFrom writes the first slot behind the recipient's and IncreaseSize(1)
MoveFirstToEndOf ==
  LET this == SetKeyAt(tree.right, 0, tree.middle_key)
  IN /\ GetSize(tree.right) >= 1
     /\ Begin("move_first_to_end_of", "left", Append(tree.left, this[1]), this, <<>>, <<this[1]>>)

\* left.MoveLastToFrontOf(right, middle_key): recipient->SetKeyAt(0, middle_key),
\* then CopyFirstFrom shifts the recipient's slots up by one, writes the last
\* slot of this page into slot 0 and IncreaseSize(1)
MoveLastToFrontOf ==
  LET last_item == tree.left[GetSize(tree.left)]
  IN /\ GetSize(tree.left) >= 1
     /\ Begin("move_last_to_front_of", "right", tree.left,
              <<last_item>> \o SetKeyAt(tree.right, 0, tree.middle_key), <<>>, <<last_item>>)

\* buffer_pool_manager->FetchPage(child): the page, or nullptr, which the next
\* line dereferences: the process stops
AdoptFetch ==
  LET child == Head(tree.todo)
      call == FetchPgCall(child)
  IN /\ tree.pc = "fetch"
     /\ tree.todo # <<>>
     /\ FetchPgImp(child)
     /\ tree' = IF call.ret THEN [tree EXCEPT !.pc = "write", !.frame = call.frame]
                ELSE [tree EXCEPT !.pc = "crashed"]
     /\ TreeFrame

\* node->SetParentPageId(GetPageId())
AdoptWrite ==
  /\ tree.pc = "write"
  /\ pages_' = [pages_ EXCEPT ![tree.frame].data = ParentBytes(GetPageId(tree.recipient))]
  /\ tree' = [tree EXCEPT !.pc = "unpin"]
  /\ UNCHANGED <<free_list_, page_table_, replacer_, next_page_id_, disk>>
  /\ TreeFrame

\* buffer_pool_manager->UnpinPage(page->GetPageId(), true)
AdoptUnpin ==
  /\ tree.pc = "unpin"
  /\ UnpinPgImp(Head(tree.todo), TRUE)
  /\ tree' = [tree EXCEPT !.pc = "fetch", !.todo = Tail(tree.todo), !.frame = NoFrame]
  /\ TreeFrame

\* the move returns: IncreaseSize(size) of CopyNFrom and SetSize(0) of MoveAllTo,
\* the shift and IncreaseSize(-1) of MoveFirstToEndOf, IncreaseSize(-1) of
\* MoveLastToFrontOf
MoveReturn ==
  /\ tree.pc = "fetch"
  /\ tree.todo = <<>>
  /\ tree' = [tree EXCEPT
       !.pc = "done",
       !.items = <<>>,
       !.left = IF tree.op = "move_all_to" THEN tree.left \o tree.items
                ELSE IF tree.op = "move_last_to_front_of" THEN SubSeq(tree.left, 1, GetSize(tree.left) - 1)
                ELSE tree.left,
       !.right = IF tree.op = "move_half_to" THEN tree.right \o tree.items
                 ELSE IF tree.op = "move_all_to" THEN <<>>
                 ELSE IF tree.op = "move_first_to_end_of" THEN Tail(tree.right)
                 ELSE tree.right]
  /\ UNCHANGED bpm
  /\ TreeFrame

\* Lookup(key) on a page of size 1 or more
LookupCall(side, key) ==
  LET page == IF side = "left" THEN tree.left ELSE tree.right
  IN /\ tree.pc \in {"idle", "done"}
     /\ GetSize(page) >= 1
     /\ tree' = [tree EXCEPT !.lookup = [page |-> page, key |-> key, ret |-> Lookup(page, key)]]
     /\ UNCHANGED bpm
     /\ TreeFrame

\* another holder of the pool fetches a page that is not resident
OtherFetch(page_id) ==
  /\ tree.pc = "idle"
  /\ ~Resident(page_id)
  /\ FetchPgImp(page_id)
  /\ tree' = [tree EXCEPT !.lookup = NoLookup]
  /\ TreeFrame

\* another holder of the pool unpins a page it has not written
OtherUnpin(page_id) ==
  /\ tree.pc = "idle"
  /\ ~UnpinRefused(page_id)
  /\ UnpinPgImp(page_id, FALSE)
  /\ tree' = [tree EXCEPT !.lookup = NoLookup]
  /\ TreeFrame

\* the strictly increasing sequences of n keys
IncreasingKeys(n) == {keys \in [1 .. n -> TreeKeys] : \A i \in 1 .. n - 1 : keys[i] < keys[i + 1]}

\* the page with these children, these keys in the slots 1 .. size-1 and
\* first_key left in slot 0
InternalPage(children, keys, first_key) ==
  [i \in 1 .. Len(children) |-> [key |-> IF i = 1 THEN first_key ELSE keys[i - 1], value |-> children[i]]]

\* The pool as constructed, over a database file that holds two sibling internal
\* pages and their children: the children 0 .. nl-1 of the left page and
\* nl .. nl+nr-1 of the right page, each with its parent's id on the disk.
InitTree ==
  /\ entries = NewEntries
  /\ threads = [t \in Threads |-> IdleThread]
  /\ history = NewHistory
  /\ pages_ = [f \in FrameIds |-> NewPage]
  /\ free_list_ = [i \in 1 .. PoolSize |-> i - 1]
  /\ page_table_ = NewTable
  /\ replacer_ = NewReplacer
  /\ next_page_id_ = 0
  /\ last = Refusal("init", INVALID_PAGE_ID, FALSE, TRUE)
  /\ saved = [p \in PageIds |-> NoData]
  /\ \E nl \in 0 .. MaxPage, nr \in 0 .. MaxPage :
       /\ nl + nr \in 1 .. MaxPage
       /\ \E kl \in IncreasingKeys(IF nl = 0 THEN 0 ELSE nl - 1),
             kr \in IncreasingKeys(IF nr = 0 THEN 0 ELSE nr - 1),
             middle_key \in TreeKeys, first_key \in {0, MaxTreeKey + 1} :
            /\ \A i \in DOMAIN kl : kl[i] < middle_key
            /\ \A i \in DOMAIN kr : middle_key < kr[i]
            /\ tree = [NewTree EXCEPT
                 !.left = InternalPage([i \in 1 .. nl |-> i - 1], kl, 0),
                 !.right = InternalPage([i \in 1 .. nr |-> nl + i - 1], kr, first_key),
                 !.middle_key = middle_key]
            /\ disk = [p \in PageIds |-> IF p < nl THEN ParentBytes(LeftId)
                                         ELSE IF p < nl + nr THEN ParentBytes(RightId)
                                         ELSE 0]

NextTree ==
  \/ \E page_id \in PageIds : OtherFetch(page_id)
  \/ \E page_id \in PageIds : OtherUnpin(page_id)
  \/ \E min_size \in 0 .. GetSize(tree.left) : MoveHalfTo(min_size)
  \/ MoveAllTo
  \/ MoveFirstToEndOf
  \/ MoveLastToFrontOf
  \/ AdoptFetch
  \/ AdoptWrite
  \/ AdoptUnpin
  \/ MoveReturn
  \/ \E side \in {"left", "right"}, key \in LookupKeys : LookupCall(side, key)

SpecTree == InitTree /\ [][NextTree]_vars

(***************************************************************************)
(* Properties of SpecTree.                                                 *)
(***************************************************************************)
\* the keys of the slots 1 .. size-1 are strictly increasing
Increasing(page) == \A i \in 1 .. GetSize(page) - 2 : KeyAt(page, i) < KeyAt(page, i + 1)

\* the largest slot that is slot 0 or has a key not above key
LargestNotAbove(page, key) ==
  LET fits == {i \in 0 .. GetSize(page) - 1 : i = 0 \/ KeyAt(page, i) <= key}
  IN CHOOSE i \in fits : \A j \in fits : j <= i

\* C25: on a page of size n >= 1 with strictly increasing keys in the slots
\* 1 .. n-1, Lookup(key) returns the value of the largest slot i with i = 0 or
\* key(i) <= key: value(0) for a key below key(1), the slot's value on an exact
\* match, the last value for a key above every key; and the result is the same
\* whatever key slot 0 holds.
LookupContract ==
  LET page == tree.lookup.page
      key == tree.lookup.key
      ret == tree.lookup.ret
      n == GetSize(page)
  IN n >= 1 /\ Increasing(page) =>
       /\ ret = ValueAt(page, LargestNotAbove(page, key))
       /\ (n = 1 \/ key < KeyAt(page, 1)) => ret = ValueAt(page, 0)
       /\ \A i \in 1 .. n - 1 : KeyAt(page, i) = key => ret = ValueAt(page, i)
       /\ (\A i \in 1 .. n - 1 : KeyAt(page, i) < key) => ret = ValueAt(page, n - 1)
       /\ \A first_key \in LookupKeys : Lookup(SetKeyAt(page, 0, first_key), key) = ret

\* C25, its case: Lookup on a page of three slots, with a key between key(1)
\* and key(2), returned value(1)
LookedUpBetween ==
  /\ GetSize(tree.lookup.page) = 3
  /\ KeyAt(tree.lookup.page, 1) < tree.lookup.key
  /\ tree.lookup.key < KeyAt(tree.lookup.page, 2)
  /\ tree.lookup.ret = ValueAt(tree.lookup.page, 1)

\* the children of the two siblings when the move began
ChildrenBefore == Children(tree.before.left) \cup Children(tree.before.right)

\* C26: once a move is over, by returning or by the process stopping in it,
\* every child whose slot it hands to the recipient has the recipient's page id
\* as its parent_page_id (in its frame, or on the disk when it is not resident),
\* is dirty when it is resident and has the pin count it had before the move;
\* the children of the other slots have the parent_page_id they had.
AdoptionContract ==
  tree.pc \in {"done", "crashed"} =>
    /\ \A c \in tree.moved :
         /\ ChildBytes(c) = ParentBytes(GetPageId(tree.recipient))
         /\ Resident(c) => pages_[FrameOf(c)].is_dirty
         /\ PinCount(c) = tree.before.pins[c]
    /\ \A c \in ChildrenBefore \ tree.moved : ChildBytes(c) = tree.before.parents[c]

\* middle_key is above every key of the left page and below every key of the
\* right page, slot 0 aside
Separates(left, middle_key, right) ==
  /\ \A i \in 1 .. GetSize(left) - 1 : KeyAt(left, i) < middle_key
  /\ \A i \in 1 .. GetSize(right) - 1 : middle_key < KeyAt(right, i)

\* every slot of page that carries child has this key, and one does
CarriedWith(page, child, key) ==
  /\ \E i \in 1 .. Len(page) : page[i].value = child
  /\ \A i \in 1 .. Len(page) : page[i].value = child => page[i].key = key

\* C27: when MoveAllTo (right into left), MoveFirstToEndOf (right to left) or
\* MoveLastToFrontOf (left to right) has returned, on siblings whose keys were
\* strictly increasing and separated by middle_key, the keys of the slots
\* 1 .. size-1 of both pages are strictly increasing and the slot that carries
\* the child that was leftmost in the right page has the key middle_key.
SiblingsStaySorted ==
  /\ tree.pc = "done"
  /\ tree.op \in {"move_all_to", "move_first_to_end_of", "move_last_to_front_of"}
  /\ Increasing(tree.before.left) /\ Increasing(tree.before.right)
  /\ Separates(tree.before.left, tree.middle_key, tree.before.right)
  /\ GetSize(tree.before.right) >= 1
  => /\ Increasing(tree.left) /\ Increasing(tree.right)
     /\ CarriedWith(IF tree.op = "move_last_to_front_of" THEN tree.right ELSE tree.left,
                    ValueAt(tree.before.right, 0), tree.middle_key)

\* C27, its case: MoveLastToFrontOf has moved the only slot of the left page in
\* front of the two slots of the right page, whose slot 0 held a key above
\* every key: slot 1 has middle_key, slot 2 the key it had as slot 1
BorrowedFromLeft ==
  /\ tree.pc = "done"
  /\ tree.op = "move_last_to_front_of"
  /\ GetSize(tree.before.right) = 2
  /\ KeyAt(tree.before.right, 0) = MaxTreeKey + 1
  /\ GetSize(tree.right) = 3
  /\ KeyAt(tree.right, 1) = tree.middle_key
  /\ KeyAt(tree.right, 2) = KeyAt(tree.before.right, 1)

(***************************************************************************)
(* More properties of SpecTable.                                           *)
(***************************************************************************)
\* bucket b of t is bucket b of u but for the value stored with key
SameButValue(t, u, b, key) ==
  /\ u.buckets[b].depth = t.buckets[b].depth
  /\ Len(u.buckets[b].list) = Len(t.buckets[b].list)
  /\ \A i \in 1 .. Len(t.buckets[b].list) :
       /\ u.buckets[b].list[i][1] = t.buckets[b].list[i][1]
       /\ t.buckets[b].list[i][1] # key => u.buckets[b].list[i] = t.buckets[b].list[i]

\* C32: Insert(k, v) of a key that is stored splits nothing, also when the
\* bucket of k is full: global depth, directory, number of buckets, every local
\* depth and every other pair are as before, each in its place, and k has the
\* value v.
OverwriteInPlace ==
  [][\A k \in Present : \A v \in TableValues :
       TableInsert(k, v) =>
         /\ page_table_'.global_depth = page_table_.global_depth
         /\ page_table_'.dir = page_table_.dir
         /\ page_table_'.num_buckets = page_table_.num_buckets
         /\ Len(page_table_'.buckets) = Len(page_table_.buckets)
         /\ \A b \in 1 .. Len(page_table_.buckets) : SameButValue(page_table_, page_table_', b, k)
         /\ Find(page_table_', k) = [found |-> TRUE, value |-> v]]_vars

\* C32, its case: the key just inserted was stored before the call, in a full
\* bucket that a directory of several slots refers to beside other full
\* buckets; the call split nothing and the key has the new value
OverwroteInFullBucket ==
  /\ last.op = "Insert" /\ last.stored /\ last.splits = 0
  /\ IsFull(page_table_.buckets[page_table_.dir[IndexOf(page_table_, last.key) + 1]])
  /\ GetGlobalDepth(page_table_) >= 2
  /\ Cardinality(Present) >= 3
  /\ Find(page_table_, last.key).value = last.value

\* the depths a directory of the model can come to: the keys differ within them
Depths == 0 .. MaxKey

\* the keys in the bucket of key that have the low depth bits of its hash
Sharing(t, key, depth) ==
  LET list == t.buckets[t.dir[IndexOf(t, key) + 1]].list
  IN {list[i][1] : i \in {j \in 1 .. Len(list) : Hash(list[j][1]) % Pow2(depth) = Hash(key) % Pow2(depth)}}

\* consulting enough bits of the hash leaves room for key in its bucket
Separable(t, key) ==
  \E depth \in Depths : Cardinality(Sharing(t, key, depth)) < BucketSize

\* the local depth at which the loop of Insert(key, value) on t stops
StopDepth(t, key, value) ==
  LET depth0 == GetLocalDepth(t, IndexOf(t, key))
  IN IF BucketInsert(t.buckets[t.dir[IndexOf(t, key) + 1]], key, value).ok THEN depth0
     ELSE CHOOSE depth \in Depths :
            /\ depth > depth0
            /\ Cardinality(Sharing(t, key, depth)) < BucketSize
            /\ \A d \in Depths : d > depth0 /\ d < depth => Cardinality(Sharing(t, key, d)) >= BucketSize

\* every iteration of the loop of Insert(key, value) on t leaves key with a
\* bucket of greater local depth than it had when the iteration began
RECURSIVE DepthRises(_, _, _)
DepthRises(t, key, value) ==
  IF BucketInsert(t.buckets[t.dir[IndexOf(t, key) + 1]], key, value).ok THEN TRUE
  ELSE LET t1 == SplitBucket(t, IndexOf(t, key))
       IN /\ GetLocalDepth(t1, IndexOf(t1, key)) > GetLocalDepth(t, IndexOf(t, key))
          /\ DepthRises(t1, key, value)

\* C31: Insert(k, v) returns when consulting enough bits of the hash leaves
\* room for k in its bucket: its loop runs once for every local depth between
\* the one k's bucket had and the first one with room, each iteration leaves k
\* with a bucket of strictly greater local depth, and the call ends with k
\* stored in a bucket of that depth.
SplitLoopEnds ==
  [][\A k \in TableKeys : \A v \in TableValues :
       TableInsert(k, v) /\ Separable(page_table_, k) =>
         /\ DepthRises(page_table_, k, v)
         /\ GetLocalDepth(page_table_, IndexOf(page_table_, k)) + last'.splits = StopDepth(page_table_, k, v)
         /\ GetLocalDepth(page_table_', IndexOf(page_table_', k)) = StopDepth(page_table_, k, v)
         /\ StopDepth(page_table_, k, v) \in Depths
         /\ Find(page_table_', k) = [found |-> TRUE, value |-> v]]_vars

\* C31, its case: the loop of one Insert ran three times, until the third bit
\* of the hash told the new key from the key in its bucket
ThreeSplitsInOne ==
  /\ last.op = "Insert" /\ ~last.stored /\ last.splits = 3
  /\ GetLocalDepth(page_table_, IndexOf(page_table_, last.key)) = 3
  /\ Find(page_table_, last.key).found

(***************************************************************************)
(* More properties of SpecTree.                                            *)
(***************************************************************************)
\* a move of this kind has returned
Returned(op) == tree.pc = "done" /\ tree.op = op

\* C33: MoveHalfTo and MoveAllTo conserve slots.  MoveHalfTo with min_size
\* leaves the source at once with its slots [0, min_size) and nothing else
\* until it returns, and on return the recipient holds its old slots followed by
\* the source's slots [min_size, s) in their order; after MoveAllTo the source
\* is empty and the recipient holds its old slots followed by every slot of the
\* source in order, the first of them with middle_key; the two sizes add up to
\* what they did before the call.
SlotsConserved ==
  /\ [](Returned("move_half_to") =>
          /\ tree.left = SubSeq(tree.before.left, 1, GetSize(tree.left))
          /\ tree.right = tree.before.right
                            \o SubSeq(tree.before.left, GetSize(tree.left) + 1, GetSize(tree.before.left))
          /\ GetSize(tree.left) + GetSize(tree.right)
               = GetSize(tree.before.left) + GetSize(tree.before.right))
  /\ [](Returned("move_all_to") =>
          /\ tree.right = <<>>
          /\ tree.left = tree.before.left
                           \o [i \in 1 .. GetSize(tree.before.right) |->
                                 [key |-> IF i = 1 THEN tree.middle_key ELSE tree.before.right[i].key,
                                  value |-> tree.before.right[i].value]]
          /\ GetSize(tree.left) + GetSize(tree.right)
               = GetSize(tree.before.left) + GetSize(tree.before.right))
  /\ [][/\ \A min_size \in 0 .. GetSize(tree.left) :
             MoveHalfTo(min_size) =>
               /\ GetSize(tree'.left) = min_size
               /\ tree'.left = SubSeq(tree.left, 1, min_size)
        /\ tree.op = "move_half_to" /\ tree.pc # "done" => tree'.left = tree.left]_vars

\* C33, its case: MoveHalfTo has returned from a source of two slots that kept
\* one, to a recipient that had a slot of its own
HalfMovedBehind ==
  /\ Returned("move_half_to")
  /\ GetSize(tree.before.left) = 2 /\ GetSize(tree.before.right) = 1
  /\ GetSize(tree.left) = 1 /\ GetSize(tree.right) = 2

====
